---- MODULE Spec2Model ----
(***************************************************************************)
(* Verification model of the ogkr chart pipeline:                          *)
(*   lex (cursor + tokenize) -> raw parse (parse_tokens) ->                *)
(*   semantic resolution (parse_raw_ogkr).                                 *)
(* Each stage has its own specification over its own group of variables;   *)
(* the groups a specification does not use stay at their idle value.       *)
(***************************************************************************)
EXTENDS Integers, Sequences, FiniteSets, TLC

VARIABLES
    \* ---- hold interpolation (analysis.rs, Lane / HoldNote) ----
    hsection,   \* raw LaneSection the lane is built from
    hhold,      \* command::Hold placed on that lane
    hlane,      \* Result<Lane> of Lane::from_lane_section
    hnote,      \* Result<HoldNote> of HoldNote::from_hold_and_lane
    hpc         \* "lane" -> "hold" -> "done"

holdVars == <<hsection, hhold, hlane, hnote, hpc>>

VARIABLES
    \* ---- Bullets::from_raw (analysis.rs) ----
    bpalettes,  \* Vec<command::BulletPalette>
    bbullets,   \* Vec<command::Bullet>
    bresult     \* Result<Bullets>

bulletVars == <<bpalettes, bbullets, bresult>>

VARIABLES
    \* ---- semantic resolution (analysis.rs, Ogkr::from_raw) ----
    raw,        \* the RawOgkr being resolved
    rtrack,     \* Result<Track>
    rnotes,     \* Result<Notes>
    rbullets,   \* Result<Bullets>
    rogkr,      \* Result<Ogkr>: what parse_raw_ogkr returns
    rpc         \* "track" -> "notes" -> "bullets" -> "meta" -> "done"

resolveVars == <<raw, rtrack, rnotes, rbullets, rogkr, rpc>>

VARIABLES
    \* ---- raw parsing (raw.rs, parse_tokens) ----
    stream,     \* the TokenStream parse_tokens was called with
    commands,   \* Commands: the tokens not yet consumed, next one first
    ogkr,       \* the RawOgkr under construction
    presult     \* Result<RawOgkr>: NotRun while the loop runs

parseVars == <<stream, commands, ogkr, presult>>

VARIABLES
    \* ---- lexing (lex/mod.rs, tokenize) ----
    source,     \* the text tokenize was called with
    cursor,     \* the Cursor over source
    tokens,     \* the tokens pushed so far
    lresult     \* Result<TokenStream>: NotRun while the loop runs

lexVars == <<source, cursor, tokens, lresult>>

VARIABLES
    \* ---- ordering of x positions (analysis.rs, impl Ord for XPosition) ----
    xself,      \* the XPosition cmp is called on
    xother,     \* the XPosition it is compared with
    xordering   \* the Ordering of xself.cmp(&xother) and of xother.cmp(&xself)

orderVars == <<xself, xother, xordering>>

vars == <<holdVars, bulletVars, resolveVars, parseVars, lexVars, orderVars>>

----------------------------------------------------------------------------
(* Bounds of the model. *)

MaxMeasure == 1
MaxOffset == 1
MaxX == 1
MaxPoints == 3
MaxLaneId == 2
MaxSections == 2
MaxSectionPoints == 2
MaxNotes == 2
MaxPaletteId == 2
MaxPalettes == 2
MaxBullets == 2
MaxTokens == 3

----------------------------------------------------------------------------
(* Result values: Ok(val), Err(ParseError) and an abort (panic). *)

Ok(v) == [kind |-> "Ok", val |-> v, msg |-> ""]
Err(k, m) == [kind |-> k, val |-> <<>>, msg |-> m]
Panic(m) == [kind |-> "Panic", val |-> <<>>, msg |-> m]
NotRun == [kind |-> "NotRun", val |-> <<>>, msg |-> ""]

IsOk(r) == r.kind = "Ok"
IsPanic(r) == r.kind = "Panic"

RECURSIVE SeqsUpTo(_, _)
SeqsUpTo(S, n) ==
    IF n = 0 THEN {<<>>}
    ELSE LET shorter == SeqsUpTo(S, n - 1)
         IN  shorter \cup {Append(s, e) : s \in {t \in shorter : Len(t) = n - 1}, e \in S}

----------------------------------------------------------------------------
(* Timing keys and positions. *)

\* command::CommandTime
CommandTime == [measure : 0..MaxMeasure, offset : 0..MaxOffset]

\* impl From<command::CommandTime> for TimingPoint
TimingPoint_from(command_time) ==
    [measure |-> command_time.measure, beat_offset |-> command_time.offset]

IntCmp(a, b) == IF a < b THEN "Less" ELSE IF a > b THEN "Greater" ELSE "Equal"

\* Ordering::then
Then(first, second) == IF first = "Equal" THEN second ELSE first

\* impl Ord for TimingPoint
TimingPoint_cmp(a, b) ==
    Then(IntCmp(a.measure, b.measure), IntCmp(a.beat_offset, b.beat_offset))

\* impl Ord for XPosition
XPosition_cmp(a, b) ==
    Then(IntCmp(a.position, b.position), IntCmp(a.offset, b.position))

\* #[derive(PartialEq)] for XPosition
XPosition_eq(a, b) == a.position = b.position /\ a.offset = b.offset

\* XPosition::new
XPosition_new(position, offset) == [position |-> position, offset |-> offset]

\* XPosition::new_position
XPosition_new_position(position) == XPosition_new(position, 0)

\* TrackPosition::from_command_info
TrackPosition_from_command_info(time, x_position, x_offset) ==
    [time |-> TimingPoint_from(time), x |-> XPosition_new(x_position, x_offset)]

\* TrackPosition::from_lane_point
TrackPosition_from_lane_point(lane_point) ==
    [time |-> TimingPoint_from(lane_point.time),
     x |-> XPosition_new_position(lane_point.x_position)]

\* TrackPosition::from_wall_point
TrackPosition_from_wall_point(wall_point) ==
    [time |-> TimingPoint_from(wall_point.time),
     x |-> XPosition_new_position(wall_point.x_position)]

----------------------------------------------------------------------------
(* slice::binary_search_by as called on lane.points with the comparator    *)
(* |point| point.time.cmp(&t).  Indices are 0-based as in the code.  The   *)
(* index reported among several equal keys, and the result on an unsorted  *)
(* slice, depend on the standard library the crate is built with: both     *)
(* library loops are modelled and a call picks either.                     *)

Found(i) == [found |-> TRUE, idx |-> i]
NotFound(i) == [found |-> FALSE, idx |-> i]

RECURSIVE BsHalvingLoop(_, _, _, _)
BsHalvingLoop(points, t, base, size) ==
    IF size > 1
    THEN LET half == size \div 2
             mid == base + half
             c == TimingPoint_cmp(points[mid + 1].time, t)
         IN  BsHalvingLoop(points, t, IF c = "Greater" THEN base ELSE mid, size - half)
    ELSE base

BinarySearchHalving(points, t) ==
    IF Len(points) = 0 THEN NotFound(0)
    ELSE LET base == BsHalvingLoop(points, t, 0, Len(points))
             c == TimingPoint_cmp(points[base + 1].time, t)
         IN  IF c = "Equal" THEN Found(base)
             ELSE NotFound(base + (IF c = "Less" THEN 1 ELSE 0))

RECURSIVE BsBoundsLoop(_, _, _, _)
BsBoundsLoop(points, t, left, right) ==
    IF left < right
    THEN LET mid == left + ((right - left) \div 2)
             c == TimingPoint_cmp(points[mid + 1].time, t)
         IN  IF c = "Equal" THEN Found(mid)
             ELSE BsBoundsLoop(points, t,
                               IF c = "Less" THEN mid + 1 ELSE left,
                               IF c = "Greater" THEN mid ELSE right)
    ELSE NotFound(left)

BinarySearchBounds(points, t) == BsBoundsLoop(points, t, 0, Len(points))

BsVariants == {"halving", "bounds"}

binary_search_by(variant, points, t) ==
    IF variant = "halving" THEN BinarySearchHalving(points, t)
    ELSE BinarySearchBounds(points, t)

----------------------------------------------------------------------------
(* Lane and its hold interpolation. *)

\* start_index and end_index as the code derives them from the results `s`
\* and `e` of its two binary searches.
IntervalIndices(s, e) ==
    [start_index |-> s.idx,
     start_exact |-> s.found,
     end_index |-> IF e.found THEN e.idx
                   ELSE IF e.idx > 0 THEN e.idx - 1 ELSE e.idx,
     end_exact |-> e.found]

\* The two assert_ne! checks on `result`; indexing result[1] is itself out
\* of bounds when result has a single element.
AssertedPath(result) ==
    IF Len(result) < 2 THEN Panic("index out of bounds")
    ELSE IF result[1] = result[2] THEN Panic("assertion failed: first")
    ELSE IF result[Len(result) - 1] = result[Len(result)]
         THEN Panic("assertion failed: last")
    ELSE Ok(result)

\* The branch on the indices with the fallback the code has commented out:
\* an invalid range is an error.
PathWithinOrError(ix, points, start, end) ==
    IF ix.start_index <= ix.end_index /\ ix.end_index < Len(points)
    THEN AssertedPath((IF ~ix.start_exact THEN <<start>> ELSE <<>>)
                      \o SubSeq(points, ix.start_index + 1, ix.end_index + 1)
                      \o (IF ~ix.end_exact THEN <<end>> ELSE <<>>))
    ELSE Err("SemanticError", "Lane has invalid time range")

\* The branch on the indices `ix` in create_points_within_time_interval.
PathWithin(ix, points, start, end) ==
    IF ix.start_index <= ix.end_index /\ ix.end_index < Len(points)
    THEN AssertedPath((IF ~ix.start_exact THEN <<start>> ELSE <<>>)
                      \o SubSeq(points, ix.start_index + 1, ix.end_index + 1)
                      \o (IF ~ix.end_exact THEN <<end>> ELSE <<>>))
    ELSE Ok(<<start, end>>)

\* Lane::create_points_within_time_interval
create_points_within_time_interval(variant, points, start, end) ==
    PathWithin(IntervalIndices(binary_search_by(variant, points, start.time),
                               binary_search_by(variant, points, end.time)),
               points, start, end)

\* Lane::from_lane_section
Lane_from_lane_section(lane_section, lane_type) ==
    IF Len(lane_section.points) >= 2
    THEN Ok([id |-> lane_section.group_id,
             lane_type |-> lane_type,
             points |-> [i \in 1..Len(lane_section.points) |->
                            TrackPosition_from_lane_point(lane_section.points[i])]])
    ELSE Err("SemanticError", "Lane section requires at least 2 points")

\* Lane::from_wall_section
Lane_from_wall_section(wall_section, lane_type) ==
    IF Len(wall_section.points) >= 2
    THEN Ok([id |-> wall_section.group_id,
             lane_type |-> lane_type,
             points |-> [i \in 1..Len(wall_section.points) |->
                            TrackPosition_from_wall_point(wall_section.points[i])]])
    ELSE Err("SemanticError", "Lane section requires at least 2 points")

\* The HoldNote built once its path `points` is resolved (or the failure).
HoldNoteOf(hold, lane, start, end, points, is_critical) ==
    IF IsOk(points)
    THEN Ok([lane_id |-> hold.lane_group_id,
             lane_type |-> lane.lane_type,
             start |-> start,
             end |-> end,
             points |-> points.val,
             is_critical |-> is_critical])
    ELSE points

\* HoldNote::from_hold_and_lane
HoldNote_from_hold_and_lane(variant, hold, lane, is_critical) ==
    LET start == TrackPosition_from_command_info(
                     hold.start_time, hold.start_x_position, hold.start_x_offset)
        end == TrackPosition_from_command_info(
                     hold.end_time, hold.end_x_position, hold.end_x_offset)
    IN  HoldNoteOf(hold, lane, start, end,
                   create_points_within_time_interval(variant, lane.points, start, end),
                   is_critical)

----------------------------------------------------------------------------
(* Specification SpecHold: one lane section, one hold on it. *)

\* command::LanePoint of group 1
LanePoints == [group_id : {1}, time : CommandTime, x_position : 0..MaxX]

\* command::Hold on lane 1
Holds == [lane_group_id : {1},
          start_time : CommandTime, start_x_position : 0..MaxX, start_x_offset : {0},
          end_time : CommandTime, end_x_position : 0..MaxX, end_x_offset : {0}]

IdleHold ==
    /\ hsection = <<>>
    /\ hhold = <<>>
    /\ hlane = NotRun
    /\ hnote = NotRun
    /\ hpc = "idle"

IdleBullets ==
    /\ bpalettes = <<>>
    /\ bbullets = <<>>
    /\ bresult = NotRun

IdleParse ==
    /\ stream = <<>>
    /\ commands = <<>>
    /\ ogkr = <<>>
    /\ presult = [kind |-> "Idle", val |-> <<>>, msg |-> ""]

IdleOrder ==
    /\ xself = <<>>
    /\ xother = <<>>
    /\ xordering = <<>>

IdleLex ==
    /\ source = <<>>
    /\ cursor = <<>>
    /\ tokens = <<>>
    /\ lresult = [kind |-> "Idle", val |-> <<>>, msg |-> ""]

IdleResolve ==
    /\ raw = <<>>
    /\ rtrack = NotRun
    /\ rnotes = NotRun
    /\ rbullets = NotRun
    /\ rogkr = NotRun
    /\ rpc = "idle"

InitHold ==
    /\ IdleOrder
    /\ IdleBullets
    /\ IdleResolve
    /\ IdleParse
    /\ IdleLex
    /\ hsection \in [group_id : {1}, points : SeqsUpTo(LanePoints, MaxPoints)]
    /\ hhold \in Holds
    /\ hlane = NotRun
    /\ hnote = NotRun
    /\ hpc = "lane"

LaneFromSection ==
    /\ hpc = "lane"
    /\ hlane' = Lane_from_lane_section(hsection, "Left")
    /\ hpc' = IF IsOk(hlane') THEN "hold" ELSE "done"
    /\ UNCHANGED <<hsection, hhold, hnote, bulletVars, resolveVars, parseVars, lexVars, orderVars>>

HoldFromHoldAndLane ==
    /\ hpc = "hold"
    /\ \E variant \in BsVariants :
           hnote' = HoldNote_from_hold_and_lane(variant, hhold, hlane.val, FALSE)
    /\ hpc' = "done"
    /\ UNCHANGED <<hsection, hhold, hlane, bulletVars, resolveVars, parseVars, lexVars, orderVars>>

NextHold == LaneFromSection \/ HoldFromHoldAndLane

SpecHold == InitHold /\ [][NextHold]_vars

\* The hold's two positions as the resolver builds them.
HoldStart ==
    TrackPosition_from_command_info(
        hhold.start_time, hhold.start_x_position, hhold.start_x_offset)

HoldEnd ==
    TrackPosition_from_command_info(
        hhold.end_time, hhold.end_x_position, hhold.end_x_offset)

HoldCalled == hpc = "done" /\ IsOk(hlane)

NoAdjacentEqual(path) == \A i \in 1..(Len(path) - 1) : path[i] # path[i + 1]

StrictlyIncreasing(points) ==
    \A k \in 1..(Len(points) - 1) :
        TimingPoint_cmp(points[k].time, points[k + 1].time) = "Less"

MatchesNoPoint(points, t) == \A k \in 1..Len(points) : points[k].time # t

\* C1: every call of create_points_within_time_interval returns a path in
\* which no two adjacent points are equal, and neither boundary assertion
\* (nor the indexing inside it) aborts the call.
C1_PathHasNoAdjacentEqualPoints ==
    HoldCalled =>
        /\ IsOk(hnote)
        /\ NoAdjacentEqual(hnote.val.points)

\* C2: on a lane with strictly increasing times, a hold whose start time is
\* the time of lane point i and whose end time is the time of lane point j,
\* i <= j (i = j included), resolves to exactly lane.points[i..=j].
C2_ExactMatchGivesLaneSlice ==
    (HoldCalled /\ StrictlyIncreasing(hlane.val.points)) =>
        \A i, j \in 1..Len(hlane.val.points) :
            ( /\ i <= j
              /\ hlane.val.points[i].time = HoldStart.time
              /\ hlane.val.points[j].time = HoldEnd.time )
            => /\ IsOk(hnote)
               /\ hnote.val.points = SubSeq(hlane.val.points, i, j)
               /\ Len(hnote.val.points) = j - i + 1

\* C3: a hold whose start time matches no lane point gets a path whose first
\* element is the hold's start, a hold whose end time matches no lane point
\* gets a path whose last element is the hold's end, and in both cases the
\* first two elements differ and the last two elements differ.
C3_SynthesizedEndpointsDiffer ==
    HoldCalled =>
        LET points == hlane.val.points
            noStart == MatchesNoPoint(points, HoldStart.time)
            noEnd == MatchesNoPoint(points, HoldEnd.time)
        IN  (noStart \/ noEnd) =>
                /\ IsOk(hnote)
                /\ LET path == hnote.val.points
                       n == Len(path)
                   IN  /\ n >= 2
                       /\ noStart => path[1] = HoldStart
                       /\ noEnd => path[n] = HoldEnd
                       /\ path[1] # path[2]
                       /\ path[n - 1] # path[n]

----------------------------------------------------------------------------
(* HashMap / BTreeMap values: a map is a function from its key set. *)

EmptyMap == << >>

\* An insert that keeps the value of a key already present.
MapInsertIfAbsent(m, k, v) == [x \in (DOMAIN m) \cup {k} |-> IF x \in DOMAIN m THEN m[x] ELSE v]

\* HashMap::insert, BTreeMap::insert: an existing key gets the new value.
MapInsert(m, k, v) == [x \in (DOMAIN m) \cup {k} |-> IF x = k THEN v ELSE m[x]]

\* HashMap::extend, and collecting a chained iterator into a BTreeMap:
\* entries of `other` replace entries of `m` with the same key.
MapExtend(m, other) ==
    [x \in (DOMAIN m) \cup (DOMAIN other) |-> IF x \in DOMAIN other THEN other[x] ELSE m[x]]

\* m.entry(k).or_insert_with(Vec::new).push(v)
MapPush(m, k, v) ==
    MapInsert(m, k, IF k \in DOMAIN m THEN Append(m[k], v) ELSE <<v>>)

\* The orders in which HashMap::values may visit the entries of a map with
\* key set S: the hasher is seeded per map, so every order is possible.
IterationOrders(S) ==
    {o \in [1..Cardinality(S) -> S] : \A i, j \in 1..Cardinality(S) : i # j => o[i] # o[j]}

\* BTreeMap::last_key_value on a map keyed by TimingPoint: None on an empty map.
last_key(m) ==
    IF DOMAIN m = {} THEN [some |-> FALSE, v |-> <<>>]
    ELSE [some |-> TRUE,
          v |-> CHOOSE k \in DOMAIN m :
                    \A j \in DOMAIN m : TimingPoint_cmp(j, k) # "Greater"]

\* The first result of a `?` chain that is not Ok, if any.
RECURSIVE FirstFailure(_, _)
FirstFailure(results, i) ==
    IF i > Len(results) THEN NotRun
    ELSE IF ~IsOk(results[i]) THEN results[i]
    ELSE FirstFailure(results, i + 1)

----------------------------------------------------------------------------
(* Section entities other than Lane. *)

\* TrackPosition::from_command_colorful_lane_point
TrackPosition_from_command_colorful_lane_point(lane_point) ==
    [time |-> TimingPoint_from(lane_point.time),
     x |-> XPosition_new_position(lane_point.x_position)]

\* impl From<command::ColorfulLanePoint> for ColorfulLanePoint
ColorfulLanePoint_from(point) ==
    [position |-> TrackPosition_from_command_colorful_lane_point(point),
     color |-> point.color,
     brightness |-> point.brightness]

\* impl From<command::BeamPoint> for BeamPoint
BeamPoint_from(point) ==
    [position |-> TrackPosition_from_command_info(point.time, point.x_position, 0),
     width |-> point.width]

\* impl From<command::ObliqueBeamPoint> for ObliqueBeamPoint
ObliqueBeamPoint_from(point) ==
    [position |-> TrackPosition_from_command_info(point.time, point.x_position, 0),
     width |-> point.width,
     shoot_x_offset |-> point.shoot_position_x_offset]

\* The body shared by ColorfulLane::from_section, Beam::from_section and
\* ObliqueBeam::from_section, on the section's points already converted:
\* first()/last() are None on an empty section, and the slice
\* points[1..len - 1] is out of range on a one-point section.
StartMiddleEnd(id, points, message) ==
    IF Len(points) = 0 THEN Err("SemanticError", message)
    ELSE IF 1 > Len(points) - 1
         THEN Panic("slice index starts at 1 but ends at 0")
         ELSE Ok([id |-> id,
                  start |-> points[1],
                  middle |-> SubSeq(points, 2, Len(points) - 1),
                  end |-> points[Len(points)]])

\* ColorfulLane::from_section
ColorfulLane_from_section(lane_section) ==
    StartMiddleEnd(lane_section.group_id,
                   [i \in 1..Len(lane_section.points) |->
                       ColorfulLanePoint_from(lane_section.points[i])],
                   "Colorful lane requires at least 2 points")

\* Beam::from_section
Beam_from_section(section) ==
    StartMiddleEnd(section.record_id,
                   [i \in 1..Len(section.points) |-> BeamPoint_from(section.points[i])],
                   "Beam section requires at least 2 points")

\* ObliqueBeam::from_section
ObliqueBeam_from_section(section) ==
    StartMiddleEnd(section.record_id,
                   [i \in 1..Len(section.points) |-> ObliqueBeamPoint_from(section.points[i])],
                   "Oblique beam section requires at least 2 points")

----------------------------------------------------------------------------
(* Track::from_raw.  Each map_* returns the set of results it can produce: *)
(* one per order in which the HashMap of entities may be visited.          *)

\* The first try_fold of every map_*, over the entities built from the
\* sections in source order: entities keyed by id, a later section
\* replacing an earlier one with the same id; the first failure ends it.
RECURSIVE DataFold(_, _, _)
DataFold(entities, i, m) ==
    IF i > Len(entities) THEN Ok(m)
    ELSE IF ~IsOk(entities[i]) THEN entities[i]
    ELSE DataFold(entities, i + 1, MapInsert(m, entities[i].val.id, entities[i].val))

\* The second try_fold of map_lanes: ids grouped by the time of the first point.
RECURSIVE LanesSortedFold(_, _, _, _)
LanesSortedFold(data, order, i, m) ==
    IF i > Len(order) THEN m
    ELSE LET lane == data[order[i]]
         IN  LanesSortedFold(data, order, i + 1, MapPush(m, lane.points[1].time, lane.id))

\* The second try_fold of map_walls, map_colorful_lanes, map_beams and
\* map_oblique_beams: one id per start time (start_time[id]), a later visit
\* replacing an earlier one.
RECURSIVE SingleSortedFold(_, _, _, _)
SingleSortedFold(start_time, order, i, m) ==
    IF i > Len(order) THEN m
    ELSE SingleSortedFold(start_time, order, i + 1,
                          MapInsert(m, start_time[order[i]], order[i]))

\* Track::map_lanes
map_lanes(lanes, lane_type) ==
    LET data == DataFold([i \in 1..Len(lanes) |-> Lane_from_lane_section(lanes[i], lane_type)],
                         1, EmptyMap)
    IN  IF ~IsOk(data) THEN {data}
        ELSE {Ok([sorted |-> LanesSortedFold(data.val, order, 1, EmptyMap),
                  data |-> data.val]) : order \in IterationOrders(DOMAIN data.val)}

\* Track::map_walls
map_walls(walls, lane_type) ==
    LET data == DataFold([i \in 1..Len(walls) |-> Lane_from_wall_section(walls[i], lane_type)],
                         1, EmptyMap)
        start_time == [id \in DOMAIN data.val |-> data.val[id].points[1].time]
    IN  IF ~IsOk(data) THEN {data}
        ELSE {Ok([sorted |-> SingleSortedFold(start_time, order, 1, EmptyMap),
                  data |-> data.val]) : order \in IterationOrders(DOMAIN data.val)}

\* The tail shared by map_colorful_lanes, map_beams and map_oblique_beams.
StartSorted(data) ==
    LET start_time == [id \in DOMAIN data.val |-> data.val[id].start.position.time]
    IN  IF ~IsOk(data) THEN {data}
        ELSE {Ok([sorted |-> SingleSortedFold(start_time, order, 1, EmptyMap),
                  data |-> data.val]) : order \in IterationOrders(DOMAIN data.val)}

\* Track::map_colorful_lanes
map_colorful_lanes(lanes) ==
    StartSorted(DataFold([i \in 1..Len(lanes) |-> ColorfulLane_from_section(lanes[i])],
                         1, EmptyMap))

\* Track::map_beams
map_beams(beams) ==
    StartSorted(DataFold([i \in 1..Len(beams) |-> Beam_from_section(beams[i])], 1, EmptyMap))

\* Track::map_oblique_beams
map_oblique_beams(beams) ==
    StartSorted(DataFold([i \in 1..Len(beams) |-> ObliqueBeam_from_section(beams[i])],
                         1, EmptyMap))

\* Track::from_raw once the nine map_* calls returned `r` (in call order).
TrackOf(r) ==
    LET failure == FirstFailure(r, 1)
    IN  IF failure.kind # "NotRun" THEN failure
        ELSE Ok([lanes_left |-> r[1].val.sorted,
                 lanes_center |-> r[2].val.sorted,
                 lanes_right |-> r[3].val.sorted,
                 walls_left |-> r[5].val.sorted,
                 walls_right |-> r[6].val.sorted,
                 colorful_lanes |-> r[7].val.sorted,
                 enemy_lanes |-> r[4].val.sorted,
                 beams |-> r[8].val.sorted,
                 oblique_beams |-> r[9].val.sorted,
                 lanes_data |->
                     MapExtend(MapExtend(MapExtend(MapExtend(MapExtend(
                         r[1].val.data, r[2].val.data), r[3].val.data),
                         r[4].val.data), r[5].val.data), r[6].val.data),
                 colorful_lanes_data |-> r[7].val.data,
                 beams_data |-> r[8].val.data,
                 oblique_beams_data |-> r[9].val.data])

\* Track::from_raw: the set of results it can return for `raw_track`.
Track_from_raw(raw_track) ==
    {TrackOf(<<ll, lc, lr, en, wl, wr, cl, bm, ob>>) :
        ll \in map_lanes(raw_track.lanes_left, "Left"),
        lc \in map_lanes(raw_track.lanes_center, "Center"),
        lr \in map_lanes(raw_track.lanes_right, "Right"),
        en \in map_lanes(raw_track.enemy_lanes, "Enemy"),
        wl \in map_walls(raw_track.walls_left, "WallLeft"),
        wr \in map_walls(raw_track.walls_right, "WallRight"),
        cl \in map_colorful_lanes(raw_track.colorful_lanes),
        bm \in map_beams(raw_track.beams),
        ob \in map_oblique_beams(raw_track.oblique_beams)}

\* Track::get_lane
get_lane(track, id) ==
    IF id \in DOMAIN track.lanes_data
    THEN [some |-> TRUE, v |-> track.lanes_data[id]]
    ELSE [some |-> FALSE, v |-> <<>>]

----------------------------------------------------------------------------
(* Notes::from_raw. *)

None == [some |-> FALSE, v |-> <<>>]
Some(v) == [some |-> TRUE, v |-> v]

\* TapNote::from_tap
TapNote_from_tap(tap, lane_type, is_critical) ==
    [lane_id |-> tap.lane_group_id,
     lane_type |-> lane_type,
     position |-> TrackPosition_from_command_info(tap.time, tap.x_position, tap.x_offset),
     is_critical |-> is_critical]

\* impl From<command::Bell> for BellNote
BellNote_from(bell) ==
    [position |-> TrackPosition_from_command_info(bell.time, bell.x_position, 0),
     bullet_palette |-> bell.bullet_palette_id]

\* FlickNote::from_flick
FlickNote_from_flick(flick, is_critical) ==
    [position |-> TrackPosition_from_command_info(flick.time, flick.x_position, 0),
     direction |-> flick.direction,
     is_critical |-> is_critical]

\* m.entry(note.position.time).or_insert_with(Vec::new).push(note)
PushAtPosition(m, note) == MapPush(m, note.position.time, note)

\* Notes::map_tap_notes
RECURSIVE map_tap_notes(_, _, _, _, _)
map_tap_notes(taps, track, is_critical, i, m) ==
    IF i > Len(taps) THEN Ok(m)
    ELSE LET lane == get_lane(track, taps[i].lane_group_id)
         IN  IF lane.some
             THEN map_tap_notes(taps, track, is_critical, i + 1,
                      PushAtPosition(m, TapNote_from_tap(taps[i], lane.v.lane_type,
                                                         is_critical)))
             ELSE Err("SemanticError", "Tap note uses invalid lane id")

\* The step of the try_fold in map_hold_notes once the hold note is built:
\* `?` on a failure, else the note is pushed under its start time.
HoldPushed(m, hold_note) ==
    IF ~IsOk(hold_note) THEN hold_note
    ELSE Ok(MapPush(m, hold_note.val.start.time, hold_note.val))

\* Notes::map_hold_notes (`m` is the fold's accumulator as a result).
RECURSIVE map_hold_notes(_, _, _, _, _, _)
map_hold_notes(variant, holds, track, is_critical, i, m) ==
    IF i > Len(holds) \/ ~IsOk(m) THEN m
    ELSE IF holds[i].lane_group_id \in DOMAIN track.lanes_data
         THEN map_hold_notes(variant, holds, track, is_critical, i + 1,
                  HoldPushed(m.val,
                      HoldNote_from_hold_and_lane(
                          variant, holds[i], get_lane(track, holds[i].lane_group_id).v,
                          is_critical)))
         ELSE Err("SemanticError", "hold note uses invalid lane id")

\* Notes::map_bell_notes
RECURSIVE map_bell_notes(_, _, _)
map_bell_notes(bells, i, m) ==
    IF i > Len(bells) THEN Ok(m)
    ELSE map_bell_notes(bells, i + 1,
                        PushAtPosition(m, BellNote_from(bells[i])))

\* Notes::map_flick_notes
RECURSIVE map_flick_notes(_, _, _, _)
map_flick_notes(flicks, is_critical, i, m) ==
    IF i > Len(flicks) THEN Ok(m)
    ELSE map_flick_notes(flicks, is_critical, i + 1,
                         PushAtPosition(m, FlickNote_from_flick(flicks[i], is_critical)))

\* Notes::from_raw once its seven map_* calls returned `r` (in call order).
NotesOf(r) ==
    LET failure == FirstFailure(r, 1)
    IN  IF failure.kind # "NotRun" THEN failure
        ELSE Ok([taps |-> MapExtend(r[1].val, r[2].val),
                 holds |-> MapExtend(r[3].val, r[4].val),
                 bells |-> r[5].val,
                 flicks |-> MapExtend(r[6].val, r[7].val)])

\* Notes::from_raw
Notes_from_raw(variant, raw_notes, track) ==
    NotesOf(<<map_tap_notes(raw_notes.taps, track, FALSE, 1, EmptyMap),
              map_tap_notes(raw_notes.critical_taps, track, TRUE, 1, EmptyMap),
              map_hold_notes(variant, raw_notes.holds, track, FALSE, 1, Ok(EmptyMap)),
              map_hold_notes(variant, raw_notes.critical_holds, track, TRUE, 1, Ok(EmptyMap)),
              map_bell_notes(raw_notes.bells, 1, EmptyMap),
              map_flick_notes(raw_notes.flicks, FALSE, 1, EmptyMap),
              map_flick_notes(raw_notes.critical_flicks, TRUE, 1, EmptyMap)>>)

----------------------------------------------------------------------------
(* Bullets::from_raw. *)

\* impl From<command::BulletPalette> for BulletPalette
BulletPalette_from(palette) ==
    [id |-> palette.id,
     shooter |-> palette.shooter,
     target |-> palette.target,
     x_offset |-> palette.target_x_offset,
     speed |-> palette.speed,
     size |-> palette.size,
     bullet_type |-> palette.ty,
     random_position_offset |-> palette.random_position_offset,
     damage_type |-> palette.damage_type]

\* impl From<command::Bullet> for Bullet
Bullet_from(bullet) ==
    [palette_id |-> bullet.pallete_id,
     position |-> TrackPosition_from_command_info(bullet.time, bullet.x_position, 0),
     damage_type |-> bullet.damage_type]

\* The fold over the palettes in Bullets::from_raw.
RECURSIVE PaletteFold(_, _, _)
PaletteFold(palettes, i, m) ==
    IF i > Len(palettes) THEN m
    ELSE LET palette == BulletPalette_from(palettes[i])
         IN  PaletteFold(palettes, i + 1, MapInsert(m, palette.id, palette))

\* A lookup that finds every key: Bullets::from_raw without its palette check.
contains_any_key(m, k) == TRUE

\* bullet_palette_list.contains_key(&bullet.palette_id)
contains_key(m, k) == k \in DOMAIN m

\* The try_fold over the bullets in Bullets::from_raw.
RECURSIVE BulletFold(_, _, _, _)
BulletFold(bullets, bullet_palette_list, i, m) ==
    IF i > Len(bullets) THEN Ok(m)
    ELSE LET bullet == Bullet_from(bullets[i])
         IN  IF contains_key(bullet_palette_list, bullet.palette_id)
             THEN BulletFold(bullets, bullet_palette_list, i + 1,
                             MapPush(m, bullet.position.time, bullet))
             ELSE Err("SemanticError", "Bullet uses invalid palette id")

\* Bullets::from_raw
Bullets_from_raw(palettes, bullets) ==
    LET bullet_palette_list == PaletteFold(palettes, 1, EmptyMap)
        folded == BulletFold(bullets, bullet_palette_list, 1, EmptyMap)
    IN  IF ~IsOk(folded) THEN folded
        ELSE Ok([bullet_palette_list |-> bullet_palette_list, bullets |-> folded.val])

----------------------------------------------------------------------------
(* ExtraMetadata::new and the value Ogkr::from_raw returns. *)

Max(a, b) == IF a >= b THEN a ELSE b

\* ExtraMetadata::new
ExtraMetadata_new(track) ==
    LET left == last_key(track.walls_left)
        right == last_key(track.walls_right)
    IN  IF ~left.some THEN Panic("called Option::unwrap on a None value")
        ELSE IF ~right.some THEN Panic("called Option::unwrap on a None value")
        ELSE Ok([num_measures |-> Max(left.v.measure, right.v.measure)])

\* Ogkr::from_raw once track, notes and bullets resolved: the metadata is
\* computed last, and the aggregate is returned only if that did not abort.
\* Header, composition, click sounds and the enemy wave assignment are
\* copied by infallible conversions and carry no state of interest here.
Ogkr_of(track, notes, bullets) ==
    LET extra_metadata == ExtraMetadata_new(track)
    IN  IF ~IsOk(extra_metadata) THEN extra_metadata
        ELSE Ok([track |-> track,
                 notes |-> notes,
                 bullets |-> bullets,
                 extra_metadata |-> extra_metadata.val])

----------------------------------------------------------------------------
(* Raw values the resolution specifications draw their inputs from. *)

Letters == <<"a", "b", "c", "d">>

\* A bullet palette id (a String): a one-letter name.
PaletteName(i) == <<Letters[i]>>

PaletteIds == {PaletteName(i) : i \in 1..MaxPaletteId}

MeasureTime(m) == [measure |-> m, offset |-> 0]

\* command::BulletPalette with id `id`
PaletteCommand(id) ==
    [id |-> id, shooter |-> "Enemy", target_x_offset |-> 0, target |-> "Player",
     speed |-> 0, size |-> None, ty |-> None, random_position_offset |-> None,
     damage_type |-> None]

\* command::Bullet
BulletCommand(id, m) ==
    [pallete_id |-> id, time |-> MeasureTime(m), x_position |-> 0, damage_type |-> "Normal"]

PaletteCommands == {PaletteCommand(id) : id \in PaletteIds}
BulletCommands == {BulletCommand(id, m) : id \in PaletteIds, m \in 0..MaxMeasure}

\* A raw section or note in compact form: which list of the aggregate it
\* goes to, its id (group / record / lane id, or palette number for a bell,
\* 0 for none), and the measures of its points (or of its start and end).
SectionKinds ==
    {"walls_left", "walls_right", "lanes_left", "lanes_center", "lanes_right",
     "enemy_lanes", "colorful_lanes", "beams", "oblique_beams"}

SectionItems ==
    [kind : SectionKinds, id : 1..MaxLaneId,
     ms : SeqsUpTo(0..MaxMeasure, MaxSectionPoints)]

NoteItems ==
    [kind : {"taps", "critical_taps"}, id : 1..MaxLaneId,
     ms : {<<m>> : m \in 0..MaxMeasure}]
    \cup [kind : {"holds", "critical_holds"}, id : 1..MaxLaneId,
          ms : {<<a, b>> : a, b \in 0..MaxMeasure}]
    \cup [kind : {"bells"}, id : 0..MaxPaletteId, ms : {<<m>> : m \in 0..MaxMeasure}]
    \cup [kind : {"flicks", "critical_flicks"}, id : {0},
          ms : {<<m>> : m \in 0..MaxMeasure}]

\* command::WallPoint, LanePoint, EnemyLanePoint
LanePointOf(id, m) == [group_id |-> id, time |-> MeasureTime(m), x_position |-> 0]

\* command::ColorfulLanePoint
ColorfulLanePointOf(id, m) ==
    [group_id |-> id, time |-> MeasureTime(m), x_position |-> 0,
     color |-> 0, brightness |-> 0]

\* command::BeamPoint
BeamPointOf(id, m) ==
    [record_id |-> id, time |-> MeasureTime(m), x_position |-> 0, width |-> 0]

\* command::ObliqueBeamPoint
ObliqueBeamPointOf(id, m) ==
    [record_id |-> id, time |-> MeasureTime(m), x_position |-> 0, width |-> 0,
     shoot_position_x_offset |-> 0]

\* WallSection, LaneSection
LaneSectionOf(item) ==
    [group_id |-> item.id,
     points |-> [i \in 1..Len(item.ms) |-> LanePointOf(item.id, item.ms[i])]]

\* ColorfulLaneSection
ColorfulLaneSectionOf(item) ==
    [group_id |-> item.id,
     points |-> [i \in 1..Len(item.ms) |-> ColorfulLanePointOf(item.id, item.ms[i])]]

\* BeamSection
BeamSectionOf(item) ==
    [record_id |-> item.id,
     points |-> [i \in 1..Len(item.ms) |-> BeamPointOf(item.id, item.ms[i])]]

\* ObliqueBeamSection
ObliqueBeamSectionOf(item) ==
    [record_id |-> item.id,
     points |-> [i \in 1..Len(item.ms) |-> ObliqueBeamPointOf(item.id, item.ms[i])]]

\* command::Tap
TapOf(item) ==
    [lane_group_id |-> item.id, time |-> MeasureTime(item.ms[1]),
     x_position |-> 0, x_offset |-> 0]

\* command::Hold
HoldOf(item) ==
    [lane_group_id |-> item.id,
     start_time |-> MeasureTime(item.ms[1]), start_x_position |-> 0, start_x_offset |-> 0,
     end_time |-> MeasureTime(item.ms[2]), end_x_position |-> 0, end_x_offset |-> 0]

\* command::Bell
BellOf(item) ==
    [time |-> MeasureTime(item.ms[1]), x_position |-> 0,
     bullet_palette_id |-> IF item.id = 0 THEN None ELSE Some(PaletteName(item.id))]

\* command::Flick
FlickOf(item) ==
    [time |-> MeasureTime(item.ms[1]), x_position |-> 0, direction |-> "Left"]

\* The raw value an item stands for.
RawValueOf(item) ==
    CASE item.kind \in {"taps", "critical_taps"} -> TapOf(item)
      [] item.kind \in {"holds", "critical_holds"} -> HoldOf(item)
      [] item.kind = "bells" -> BellOf(item)
      [] item.kind \in {"flicks", "critical_flicks"} -> FlickOf(item)
      [] item.kind = "colorful_lanes" -> ColorfulLaneSectionOf(item)
      [] item.kind = "beams" -> BeamSectionOf(item)
      [] item.kind = "oblique_beams" -> ObliqueBeamSectionOf(item)
      [] OTHER -> LaneSectionOf(item)

\* The list of the aggregate that holds the items of one kind, in source order.
Pick(items, kind) ==
    LET selected == SelectSeq(items, LAMBDA item : item.kind = kind)
    IN  [i \in 1..Len(selected) |-> RawValueOf(selected[i])]

\* RawTrack
RawTrackOf(sections) ==
    [walls_left |-> Pick(sections, "walls_left"),
     walls_right |-> Pick(sections, "walls_right"),
     lanes_left |-> Pick(sections, "lanes_left"),
     lanes_center |-> Pick(sections, "lanes_center"),
     lanes_right |-> Pick(sections, "lanes_right"),
     colorful_lanes |-> Pick(sections, "colorful_lanes"),
     enemy_lanes |-> Pick(sections, "enemy_lanes"),
     lane_disappearances |-> <<>>,
     lane_blocks |-> <<>>,
     beams |-> Pick(sections, "beams"),
     oblique_beams |-> Pick(sections, "oblique_beams")]

\* RawNotes
RawNotesOf(notes) ==
    [bells |-> Pick(notes, "bells"),
     flicks |-> Pick(notes, "flicks"),
     critical_flicks |-> Pick(notes, "critical_flicks"),
     taps |-> Pick(notes, "taps"),
     critical_taps |-> Pick(notes, "critical_taps"),
     holds |-> Pick(notes, "holds"),
     critical_holds |-> Pick(notes, "critical_holds")]

\* Totals::default()
Totals_default ==
    [notes |-> 0, tap |-> 0, hold |-> 0, side |-> 0, side_hold |-> 0,
     flick |-> 0, bell |-> 0]

\* Header::default(): of its fields the version, the creator and the totals
Header_default == [version |-> None, creator |-> None, totals |-> Totals_default]

\* RawOgkr
RawOgkrOf(sections, notes, palettes, bullets) ==
    [header |-> Header_default,
     bullet_pallete_list |-> palettes,
     bullets |-> bullets,
     track |-> RawTrackOf(sections),
     notes |-> RawNotesOf(notes)]

\* Charts that exercise the track: any sections, nothing else.
TrackCharts(max_sections) ==
    {RawOgkrOf(sections, <<>>, <<>>, <<>>) : sections \in SeqsUpTo(SectionItems, max_sections)}

\* Charts that exercise notes and bullets: some of a left lane 1, a left
\* wall and a right wall, with any notes on lane ids 1..MaxLaneId.
SkeletonSections ==
    <<[kind |-> "lanes_left", id |-> 1, ms |-> <<0, MaxMeasure>>],
      [kind |-> "walls_left", id |-> MaxLaneId, ms |-> <<0, MaxMeasure>>],
      [kind |-> "walls_right", id |-> MaxLaneId + 1, ms |-> <<0, MaxMeasure>>]>>

Skeletons ==
    {SelectSeq(SkeletonSections, LAMBDA item : item.kind \in kinds) :
        kinds \in SUBSET {"lanes_left", "walls_left", "walls_right"}}

NoteCharts(max_notes) ==
    {RawOgkrOf(sections, notes, palettes, bullets) :
        sections \in Skeletons,
        notes \in SeqsUpTo(NoteItems, max_notes),
        palettes \in SeqsUpTo({PaletteCommand(PaletteName(1))}, 1),
        bullets \in SeqsUpTo({BulletCommand(id, 0) : id \in PaletteIds}, 1)}

----------------------------------------------------------------------------
(* Specification SpecBullets: Bullets::from_raw on any palettes and bullets. *)

InitBullets ==
    /\ IdleOrder
    /\ IdleHold
    /\ IdleResolve
    /\ IdleParse
    /\ IdleLex
    /\ bpalettes \in SeqsUpTo(PaletteCommands, MaxPalettes)
    /\ bbullets \in SeqsUpTo(BulletCommands, MaxBullets)
    /\ bresult = NotRun

BulletsFromRaw ==
    /\ bresult = NotRun
    /\ bresult' = Bullets_from_raw(bpalettes, bbullets)
    /\ UNCHANGED <<bpalettes, bbullets, holdVars, resolveVars, parseVars, lexVars, orderVars>>

NextBullets == BulletsFromRaw

SpecBullets == InitBullets /\ [][NextBullets]_vars

----------------------------------------------------------------------------
(* Specification SpecResolve: parse_raw_ogkr, i.e. Ogkr::from_raw, stage by *)
(* stage in the order of its body; the first failing stage ends the call.   *)

InitResolve ==
    /\ IdleOrder
    /\ IdleHold
    /\ IdleBullets
    /\ IdleParse
    /\ IdleLex
    /\ raw \in TrackCharts(MaxSections) \cup NoteCharts(MaxNotes)
    /\ rtrack = NotRun
    /\ rnotes = NotRun
    /\ rbullets = NotRun
    /\ rogkr = NotRun
    /\ rpc = "track"

\* let track = Track::from_raw(raw.track)?;
ResolveTrack ==
    /\ rpc = "track"
    /\ rtrack' \in Track_from_raw(raw.track)
    /\ rogkr' = IF IsOk(rtrack') THEN rogkr ELSE rtrack'
    /\ rpc' = IF IsOk(rtrack') THEN "notes" ELSE "done"
    /\ UNCHANGED <<raw, rnotes, rbullets, holdVars, bulletVars, parseVars, lexVars, orderVars>>

\* let notes = Notes::from_raw(raw.notes, &track)?;
ResolveNotes ==
    /\ rpc = "notes"
    /\ \E variant \in BsVariants :
           rnotes' = Notes_from_raw(variant, raw.notes, rtrack.val)
    /\ rogkr' = IF IsOk(rnotes') THEN rogkr ELSE rnotes'
    /\ rpc' = IF IsOk(rnotes') THEN "bullets" ELSE "done"
    /\ UNCHANGED <<raw, rtrack, rbullets, holdVars, bulletVars, parseVars, lexVars, orderVars>>

\* let bullets = Bullets::from_raw(raw.bullet_pallete_list, raw.bullets)?;
ResolveBullets ==
    /\ rpc = "bullets"
    /\ rbullets' = Bullets_from_raw(raw.bullet_pallete_list, raw.bullets)
    /\ rogkr' = IF IsOk(rbullets') THEN rogkr ELSE rbullets'
    /\ rpc' = IF IsOk(rbullets') THEN "meta" ELSE "done"
    /\ UNCHANGED <<raw, rtrack, rnotes, holdVars, bulletVars, parseVars, lexVars, orderVars>>

\* let extra_metadata = ExtraMetadata::new(..); Ok(Self { .. })
ResolveMetadata ==
    /\ rpc = "meta"
    /\ rogkr' = Ogkr_of(rtrack.val, rnotes.val, rbullets.val)
    /\ rpc' = "done"
    /\ UNCHANGED <<raw, rtrack, rnotes, rbullets, holdVars, bulletVars, parseVars, lexVars, orderVars>>

NextResolve == ResolveTrack \/ ResolveNotes \/ ResolveBullets \/ ResolveMetadata

SpecResolve == InitResolve /\ [][NextResolve]_vars

----------------------------------------------------------------------------
(* Properties of Bullets::from_raw (SpecBullets). *)

BulletsCalled == bresult.kind # "NotRun"

DeclaredPaletteIds == {bpalettes[i].id : i \in 1..Len(bpalettes)}

SomeBulletMissesPalette ==
    \E i \in 1..Len(bbullets) : bbullets[i].pallete_id \notin DeclaredPaletteIds

\* C5: Bullets::from_raw returns SemanticError if any bullet references a
\* palette id absent from the palette list, and when it returns Ok every
\* resolved bullet's palette_id is a key of bullet_palette_list.
C5_BulletsReferenceDeclaredPalettes ==
    BulletsCalled =>
        /\ SomeBulletMissesPalette => bresult.kind = "SemanticError"
        /\ IsOk(bresult) =>
               \A t \in DOMAIN bresult.val.bullets :
                   \A k \in 1..Len(bresult.val.bullets[t]) :
                       bresult.val.bullets[t][k].palette_id
                           \in DOMAIN bresult.val.bullet_palette_list

\* C5 witness: palettes are declared, the first bullet uses one of them, the
\* second one does not, and the call has returned.
C5_Witness_SecondBulletMissesPalette ==
    /\ BulletsCalled
    /\ Len(bbullets) = 2
    /\ bbullets[1].pallete_id \in DeclaredPaletteIds
    /\ bbullets[2].pallete_id \notin DeclaredPaletteIds

----------------------------------------------------------------------------
(* Properties of parse_raw_ogkr (SpecResolve). *)

ResolveDone == rpc = "done"

\* The lane ids carried by the taps, critical taps, holds and critical holds.
NoteLaneIds ==
    LET ids(list) == {list[i].lane_group_id : i \in 1..Len(list)}
    IN  ids(raw.notes.taps) \cup ids(raw.notes.critical_taps)
        \cup ids(raw.notes.holds) \cup ids(raw.notes.critical_holds)

InvalidLaneMessages == {"Tap note uses invalid lane id", "hold note uses invalid lane id"}

\* C4: when the track resolved and some tap, critical tap, hold or critical
\* hold carries a lane id that is not the id of a resolved lane or wall,
\* parse_raw_ogkr returns SemanticError "... uses invalid lane id ...".
C4_InvalidLaneIdIsSemanticError ==
    ( /\ ResolveDone
      /\ IsOk(rtrack)
      /\ \E id \in NoteLaneIds : id \notin DOMAIN rtrack.val.lanes_data )
    => /\ rogkr.kind = "SemanticError"
       /\ rogkr.msg \in InvalidLaneMessages

\* C9: parse_raw_ogkr returns Ok or Err for every raw aggregate, empty wall
\* lists included: it never aborts.
C9_ResolutionNeverAborts == ResolveDone => ~IsPanic(rogkr)

\* The chart "WLS 1 0 0 0 / WLE 1 1 0 0" as a raw aggregate: one left wall
\* with group id 1 and points at measures 0 and 1, and nothing else.
OnlyLeftWallChart ==
    RawOgkrOf(<<[kind |-> "walls_left", id |-> 1, ms |-> <<0, 1>>]>>, <<>>, <<>>, <<>>)

\* C10: the chart that holds only a left wall section of two points is
\* resolved to Ok, with a WallLeft lane of id 1 that has two points.
C10_OnlyLeftWallChartResolves ==
    (ResolveDone /\ raw = OnlyLeftWallChart) =>
        /\ IsOk(rogkr)
        /\ 1 \in DOMAIN rogkr.val.track.lanes_data
        /\ rogkr.val.track.lanes_data[1].lane_type = "WallLeft"
        /\ Len(rogkr.val.track.lanes_data[1].points) = 2

----------------------------------------------------------------------------
(* Raw parsing: parse_tokens and the section builders of raw.rs.  A token  *)
(* is [tag, id, ms]: its Token variant, the group / record / lane id of    *)
(* its payload and the measures of its payload's time(s).                  *)

\* The Token variants that open, continue and close a section of each list.
StartTag ==
    [walls_left |-> "WallLeftStart", walls_right |-> "WallRightStart",
     lanes_left |-> "LaneLeftStart", lanes_center |-> "LaneCenterStart",
     lanes_right |-> "LaneRightStart", colorful_lanes |-> "ColorfulLaneStart",
     enemy_lanes |-> "EnemyLaneStart", beams |-> "BeamStart",
     oblique_beams |-> "ObliqueBeamStart"]

NextTag ==
    [walls_left |-> "WallLeftNext", walls_right |-> "WallRightNext",
     lanes_left |-> "LaneLeftNext", lanes_center |-> "LaneCenterNext",
     lanes_right |-> "LaneRightNext", colorful_lanes |-> "ColorfulLaneNext",
     enemy_lanes |-> "EnemyLaneNext", beams |-> "BeamNext",
     oblique_beams |-> "ObliqueBeamNext"]

EndTag ==
    [walls_left |-> "WallLeftEnd", walls_right |-> "WallRightEnd",
     lanes_left |-> "LaneLeftEnd", lanes_center |-> "LaneCenterEnd",
     lanes_right |-> "LaneRightEnd", colorful_lanes |-> "ColorfulLaneEnd",
     enemy_lanes |-> "EnemyLaneEnd", beams |-> "BeamEnd",
     oblique_beams |-> "ObliqueBeamEnd"]

\* The list of RawNotes, or of RawOgkr itself, a standalone token is pushed to.
NoteList ==
    [Bell |-> "bells", Flick |-> "flicks", CriticalFlick |-> "critical_flicks",
     Tap |-> "taps", CriticalTap |-> "critical_taps",
     Hold |-> "holds", CriticalHold |-> "critical_holds"]

\* The field of Totals each header-total arm of parse_tokens assigns.
TotalField ==
    [TotalNotes |-> "notes", TotalTapNotes |-> "notes", TotalHoldNotes |-> "hold",
     TotalSideNotes |-> "side", TotalSideHoldNotes |-> "side",
     TotalFlickNotes |-> "flick", TotalBellNotes |-> "bell"]

\* The field of Header the Version and Creator arms of parse_tokens assign.
HeaderField == [Version |-> "version", Creator |-> "creator"]

\* The point a section token carries.
PointOf(kind, token) ==
    CASE kind = "colorful_lanes" -> ColorfulLanePointOf(token.id, token.ms[1])
      [] kind = "beams" -> BeamPointOf(token.id, token.ms[1])
      [] kind = "oblique_beams" -> ObliqueBeamPointOf(token.id, token.ms[1])
      [] OTHER -> LanePointOf(token.id, token.ms[1])

\* Ok(Self { group_id, points }) / Ok(Self { record_id, points })
SectionOf(kind, id, points) ==
    IF kind \in {"beams", "oblique_beams"}
    THEN [record_id |-> id, points |-> points]
    ELSE [group_id |-> id, points |-> points]

\* Vec::push at the front instead of the back.
push_front(list, element) == <<element>> \o list

\* Vec::push
push(list, element) == Append(list, element)

\* An error of the syntax kind with the same message.
err_syntax(message) == Err("SyntaxError", message)

\* Commands::err_semantic
err_semantic(message) == Err("SemanticError", message)

\* A pull that reports an exhausted stream as a syntax error.
next_command_or_syntax(rest, message) ==
    IF rest = <<>> THEN Err("SyntaxError", message) ELSE Ok(Head(rest))

\* next_token_or of raw.rs: the next command, or SemanticErrorExpectedCommand
\* when none is left
next_command_or(rest, message) ==
    IF rest = <<>> THEN Err("SemanticErrorExpectedCommand", message) ELSE Ok(Head(rest))

\* A last arm that reports the token as a semantic error.
unexpected_token_semantic(token) == Err("SemanticError", "Unexpected command token")

\* The last arm of parse_tokens: Err(ParseError::SyntaxError(..))
unexpected_token(token) == Err("SyntaxError", "Unexpected command token")

\* A check that accepts every id.
verify_any_group_id(reference_id, new_id) == Ok(<<>>)

\* verify_group_id (Commands::err_semantic builds the SemanticError)
verify_group_id(reference_id, new_id) ==
    IF reference_id # new_id
    THEN err_semantic("different group ids for consequetive section")
    ELSE Ok(<<>>)

\* The loop shared by WallSection::wall_left_from_commands, .. ,
\* ObliqueBeamSection::from_commands: `rest` are the commands not yet
\* consumed, `points` the points pushed so far.  Returns the result and the
\* commands left.
RECURSIVE section_from_commands(_, _, _, _)
section_from_commands(kind, id, rest, points) ==
    IF ~IsOk(next_command_or(rest, "more commands for section"))
    THEN [result |-> next_command_or(rest, "more commands for section"),
          commands |-> rest]
    ELSE IF Head(rest).tag \notin {NextTag[kind], EndTag[kind]}
    THEN [result |-> err_semantic("unexpected command on section"),
          commands |-> Tail(rest)]
    ELSE IF ~IsOk(verify_group_id(id, Head(rest).id))
    THEN [result |-> verify_group_id(id, Head(rest).id), commands |-> Tail(rest)]
    ELSE IF Head(rest).tag = NextTag[kind]
    THEN section_from_commands(kind, id, Tail(rest), push(points, PointOf(kind, Head(rest))))
    ELSE [result |-> Ok(SectionOf(kind, id, push(points, PointOf(kind, Head(rest))))),
          commands |-> Tail(rest)]

\* RawOgkr::default()
RawOgkr_default == RawOgkrOf(<<>>, <<>>, <<>>, <<>>)

\* The list a Start token opens a section of.
KindOfStart(tag) == CHOOSE kind \in SectionKinds : StartTag[kind] = tag

StartTags == {StartTag[kind] : kind \in SectionKinds}

\* The tokens with an arm of their own in the match of parse_tokens.
Dispatched ==
    StartTags \cup (DOMAIN NoteList) \cup (DOMAIN TotalField) \cup (DOMAIN HeaderField)
        \cup {"SectionName", "BulletPalette"}

----------------------------------------------------------------------------
(* Specification SpecParse: parse_tokens on a token stream, one iteration  *)
(* of its `while let Some(token) = commands.next_command()` per step.      *)

GroupIds == {1, 2}

\* The token shapes of a stream about sections of `kind`: its Start, Next
\* and End with either id, the Next of another list, a section header line
\* and a tap.
OtherKind(kind) == IF kind = "walls_left" THEN "walls_right" ELSE "walls_left"

TokenShapes(kind) ==
    [tag : {StartTag[kind], NextTag[kind], EndTag[kind]}, id : GroupIds, ms : {<<0>>}]
    \cup [tag : {NextTag[OtherKind(kind)], "Tap"}, id : {1}, ms : {<<0>>}]
    \cup [tag : {"SectionName"}, id : {0}, ms : {<<0>>}]

\* The i-th token of a stream carries measure i - 1.
Stamped(shapes) == [i \in 1..Len(shapes) |-> [shapes[i] EXCEPT !.ms = <<i - 1>>]]

InitParse ==
    /\ IdleOrder
    /\ IdleHold
    /\ IdleBullets
    /\ IdleResolve
    /\ IdleLex
    /\ \E kind \in SectionKinds :
           \E shapes \in SeqsUpTo(TokenShapes(kind), MaxTokens) :
               stream = Stamped(shapes)
    /\ commands = stream
    /\ ogkr = RawOgkr_default
    /\ presult = NotRun

Running == presult.kind = "NotRun"

\* Token::SectionName => continue
ParseSectionName ==
    /\ Running
    /\ commands # <<>>
    /\ Head(commands).tag = "SectionName"
    /\ commands' = Tail(commands)
    /\ UNCHANGED <<stream, ogkr, presult, holdVars, bulletVars, resolveVars, lexVars, orderVars>>

\* The arm of a Start token once its section builder returned `built`.
SectionBuilt(kind, built) ==
    /\ commands' = built.commands
    /\ IF IsOk(built.result)
       THEN /\ ogkr' = [ogkr EXCEPT !.track[kind] = push(@, built.result.val)]
            /\ presult' = presult
       ELSE /\ ogkr' = ogkr
            /\ presult' = built.result

\* Token::WallLeftStart(..) .. Token::ObliqueBeamStart(..)
ParseSection ==
    /\ Running
    /\ commands # <<>>
    /\ Head(commands).tag \in StartTags
    /\ SectionBuilt(KindOfStart(Head(commands).tag),
                    section_from_commands(
                        KindOfStart(Head(commands).tag), Head(commands).id, Tail(commands),
                        push(<<>>, PointOf(KindOfStart(Head(commands).tag), Head(commands)))))
    /\ UNCHANGED <<stream, holdVars, bulletVars, resolveVars, lexVars, orderVars>>

\* Token::Bell(..) .. Token::CriticalHold(..)
ParseNote ==
    /\ Running
    /\ commands # <<>>
    /\ Head(commands).tag \in DOMAIN NoteList
    /\ ogkr' = [ogkr EXCEPT !.notes[NoteList[Head(commands).tag]] =
                   push(@, RawValueOf([kind |-> NoteList[Head(commands).tag],
                                       id |-> Head(commands).id,
                                       ms |-> Head(commands).ms]))]
    /\ commands' = Tail(commands)
    /\ UNCHANGED <<stream, presult, holdVars, bulletVars, resolveVars, lexVars, orderVars>>

\* Token::TotalNotes(..) .. Token::TotalBellNotes(..)
ParseTotal ==
    /\ Running
    /\ commands # <<>>
    /\ Head(commands).tag \in DOMAIN TotalField
    /\ ogkr' = [ogkr EXCEPT !.header.totals[TotalField[Head(commands).tag]] =
                   Head(commands).value]
    /\ commands' = Tail(commands)
    /\ UNCHANGED <<stream, presult, holdVars, bulletVars, resolveVars, lexVars, orderVars>>

\* Token::Version(version) => .., Token::Creator(creator) => ..
ParseHeader ==
    /\ Running
    /\ commands # <<>>
    /\ Head(commands).tag \in DOMAIN HeaderField
    /\ ogkr' = [ogkr EXCEPT !.header[HeaderField[Head(commands).tag]] =
                   Some(Head(commands).value)]
    /\ commands' = Tail(commands)
    /\ UNCHANGED <<stream, presult, holdVars, bulletVars, resolveVars, lexVars, orderVars>>

\* Token::BulletPalette(bullet_palette) => ogkr.bullet_pallete_list.push(..)
ParsePalette ==
    /\ Running
    /\ commands # <<>>
    /\ Head(commands).tag = "BulletPalette"
    /\ ogkr' = [ogkr EXCEPT !.bullet_pallete_list = push(@, Head(commands).value)]
    /\ commands' = Tail(commands)
    /\ UNCHANGED <<stream, presult, holdVars, bulletVars, resolveVars, lexVars, orderVars>>

\* _ => return Err(ParseError::SyntaxError(..))
ParseUnexpected ==
    /\ Running
    /\ commands # <<>>
    /\ Head(commands).tag \notin Dispatched
    /\ presult' = unexpected_token(Head(commands))
    /\ commands' = Tail(commands)
    /\ UNCHANGED <<stream, ogkr, holdVars, bulletVars, resolveVars, lexVars, orderVars>>

\* The loop ends on an empty queue: Ok(ogkr)
ParseFinish ==
    /\ Running
    /\ commands = <<>>
    /\ presult' = Ok(ogkr)
    /\ UNCHANGED <<stream, commands, ogkr, holdVars, bulletVars, resolveVars, lexVars, orderVars>>

NextParse ==
    ParseSectionName \/ ParseSection \/ ParseNote \/ ParseUnexpected \/ ParseFinish

SpecParse == InitParse /\ [][NextParse]_vars

----------------------------------------------------------------------------
(* Properties of parse_tokens (SpecParse). *)

\* The first j commands are a well-formed section of `kind`: a Start, then
\* only matching Next tokens, then a matching End, all with the Start's id.
WellFormedRun(kind, j) ==
    /\ Running
    /\ j \in 2..Len(commands)
    /\ commands[1].tag = StartTag[kind]
    /\ commands[j].tag = EndTag[kind]
    /\ \A i \in 2..(j - 1) : commands[i].tag = NextTag[kind]
    /\ \A i \in 2..j : commands[i].id = commands[1].id

\* The section that holds the points of the first j commands in source order.
RunSection(kind, j) ==
    RawValueOf([kind |-> kind, id |-> commands[1].id,
                ms |-> [i \in 1..j |-> commands[i].ms[1]]])

\* C6: for every entity kind, a Start token followed immediately by k >= 0
\* matching Next tokens and one matching End token, all with the same id,
\* makes the parser append exactly one section to that kind's list, holding
\* those k + 2 points in source order; nothing else of the aggregate
\* changes, and parsing resumes with the token after the End.
C6_WellFormedSectionAppended ==
    [][ \A kind \in SectionKinds : \A j \in 2..Len(commands) :
            WellFormedRun(kind, j) =>
                /\ ogkr'.track[kind] = Append(ogkr.track[kind], RunSection(kind, j))
                /\ Len(ogkr'.track[kind][Len(ogkr'.track[kind])].points) = j
                /\ \A other \in SectionKinds \ {kind} :
                       ogkr'.track[other] = ogkr.track[other]
                /\ ogkr'.notes = ogkr.notes
                /\ commands' = SubSeq(commands, j + 1, Len(commands))
                /\ Running' ]_vars

\* C6 witness: the stream was a left-lane Start, Next and End with one id,
\* and parse_tokens returned the aggregate with that section of 3 points.
C6_Witness_ThreePointSectionParsed ==
    /\ IsOk(presult)
    /\ Len(stream) = 3
    /\ stream[1].tag = "LaneLeftStart"
    /\ stream[2].tag = "LaneLeftNext"
    /\ stream[3].tag = "LaneLeftEnd"
    /\ Len(presult.val.track.lanes_left) = 1
    /\ Len(presult.val.track.lanes_left[1].points) = 3

\* The id a section or a point carries (record id for beams).
IdOf(r) == IF "group_id" \in DOMAIN r THEN r.group_id ELSE r.record_id

\* No section of the aggregate holds a point whose id is not the section's.
NoMergedSection ==
    \A kind \in SectionKinds :
        \A n \in 1..Len(ogkr.track[kind]) :
            \A i \in 1..Len(ogkr.track[kind][n].points) :
                IdOf(ogkr.track[kind][n].points[i]) = IdOf(ogkr.track[kind][n])

\* Command j is the first Next or End of the section opened by command 1
\* whose id differs from the Start's, and the section loop pulls it.
MismatchPulled(kind, j) ==
    /\ Running
    /\ j \in 2..Len(commands)
    /\ commands[1].tag = StartTag[kind]
    /\ \A i \in 2..(j - 1) :
           commands[i].tag = NextTag[kind] /\ commands[i].id = commands[1].id
    /\ commands[j].tag \in {NextTag[kind], EndTag[kind]}
    /\ commands[j].id # commands[1].id

\* C7: inside a section, a pulled Next or End point whose group id (record
\* id for beams) differs from the Start's makes parse_tokens return
\* SemanticError, and no section with points of both ids is ever produced.
C7_GroupIdMismatchIsSemanticError ==
    /\ [] NoMergedSection
    /\ [][ \A kind \in SectionKinds : \A j \in 2..Len(commands) :
               MismatchPulled(kind, j) =>
                   /\ presult'.kind = "SemanticError"
                   /\ ogkr' = ogkr ]_vars

\* C7 witness: a beam Start with record id 1, a matching Next, then an End
\* with record id 2: parse_tokens stopped with the SemanticError.
C7_Witness_MismatchedEndRejected ==
    /\ presult.kind = "SemanticError"
    /\ Len(stream) = 3
    /\ stream[1].tag = "BeamStart" /\ stream[1].id = 1
    /\ stream[2].tag = "BeamNext" /\ stream[2].id = 1
    /\ stream[3].tag = "BeamEnd" /\ stream[3].id = 2
    /\ commands = <<>>

----------------------------------------------------------------------------
(* Lexer: Cursor (lex/cursor.rs), the token decoders (lex/token.rs) and     *)
(* tokenize (lex/mod.rs).  A str is a sequence of one-character strings;    *)
(* positions in it are the 0-based byte offsets of the source (the texts    *)
(* of the model are ASCII, one byte per character).                         *)

MaxLines == 3

\* &s[a..b]
Slice(s, a, b) == SubSeq(s, a + 1, b)

\* char::is_whitespace, over the characters a text of the model can hold
Whitespace == {" ", "\t", "\r", "\n"}

\* fn is_separator inside get_next_token_range: the characters it accepts
Separators == Whitespace \cup {"\n"}

\* The least offset of a set of offsets, None for the empty set.
FirstOffset(hits) ==
    IF hits = {} THEN None ELSE Some(CHOOSE i \in hits : \A k \in hits : i <= k)

\* str::find with a character predicate: the offset of the first character
\* whose membership in chars is wanted
find(s, chars, wanted) ==
    FirstOffset({i \in 0..(Len(s) - 1) : (s[i + 1] \in chars) = wanted})

\* .map_or(self.source.len(), |i| i + base)
map_or(found, length, base) == IF found.some THEN found.v + base ELSE length

RECURSIVE trim_start(_)
trim_start(s) ==
    IF s # <<>> /\ Head(s) \in Whitespace THEN trim_start(Tail(s)) ELSE s

RECURSIVE trim_end(_)
trim_end(s) ==
    IF s # <<>> /\ s[Len(s)] \in Whitespace
    THEN trim_end(SubSeq(s, 1, Len(s) - 1))
    ELSE s

\* str::trim
trim(s) == trim_end(trim_start(s))

\* Cursor::new
Cursor_new ==
    [line |-> 1, col |-> 1, current_index |-> 0, current_token_start |-> 0]

\* get_next_token_range: let next_token_start
next_token_start(src, cur) ==
    map_or(find(Slice(src, cur.current_index, Len(src)), Separators, FALSE),
           Len(src), cur.current_index)

\* get_next_token_range: let next_token_end
next_token_end(src, start) ==
    map_or(find(trim_start(Slice(src, start, Len(src))), Separators, TRUE),
           Len(src), start)

\* Cursor::get_next_token_range
get_next_token_range(src, cur) ==
    [start |-> next_token_start(src, cur),
     end |-> next_token_end(src, next_token_start(src, cur))]

\* Range::is_empty
is_empty(range) == range.start >= range.end

\* Cursor::peek_token
peek_token(src, cur) ==
    IF is_empty(get_next_token_range(src, cur)) THEN None
    ELSE Some(Slice(src, get_next_token_range(src, cur).start,
                    get_next_token_range(src, cur).end))

\* Cursor::is_end
is_end(src, cur) == ~peek_token(src, cur).some

\* The offsets (from 1) of the line feeds of a text.
LineFeeds(s) == {i \in 1..Len(s) : s[i] = "\n"}

\* .lines().last().unwrap() of a text that ends with a token character: the
\* characters after the last line feed
last_line(s) ==
    IF LineFeeds(s) = {} THEN s
    ELSE SubSeq(s, (CHOOSE i \in LineFeeds(s) : \A k \in LineFeeds(s) : k <= i) + 1,
                Len(s))

\* next_token: the cursor after it went over the consumed text up to the
\* end of the token
Advanced(cur, range, consumed) ==
    [line |-> cur.line + Cardinality(LineFeeds(consumed)),
     col |-> (IF Cardinality(LineFeeds(consumed)) # 0 THEN 1 ELSE cur.col)
             + Len(last_line(consumed)),
     current_index |-> range.end,
     current_token_start |-> range.start]

\* Cursor::next_token: the advanced cursor and Option<&str>
next_token(src, cur) ==
    IF is_empty(get_next_token_range(src, cur))
    THEN [cursor |-> cur, val |-> None]
    ELSE [cursor |-> Advanced(cur, get_next_token_range(src, cur),
                              Slice(src, cur.current_index,
                                    get_next_token_range(src, cur).end)),
          val |-> Some(Slice(src, get_next_token_range(src, cur).start,
                             get_next_token_range(src, cur).end))]

\* current_remaining_line: source.get(stop - 1..=stop) == Some("\r\n");
\* get is None when stop is not an offset of a character of the text
EndsWithCrLf(src, stop) ==
    /\ stop >= 1
    /\ stop < Len(src)
    /\ Slice(src, stop - 1, stop + 1) = <<"\r", "\n">>

\* current_remaining_line: ret = &source[current_index..end], which aborts
\* when end is before current_index or past the end of the text; then the
\* cursor moves to stop and ret.trim() is returned
RemainingLine(src, cur, stop, end) ==
    IF cur.current_index > end \/ end > Len(src)
    THEN [cursor |-> cur, result |-> Panic("byte index out of range of str")]
    ELSE [cursor |-> [cur EXCEPT !.col = @ + (end - cur.current_index),
                                 !.current_token_start = cur.current_index,
                                 !.current_index = stop],
          result |-> Ok(trim(Slice(src, cur.current_index, end)))]

\* current_remaining_line: let remaining_end, the offset of the next line
\* feed after the cursor, or the length of the whole text without one
remaining_end(src, cur) ==
    IF find(Slice(src, cur.current_index, Len(src)), {"\n"}, TRUE).some
    THEN find(Slice(src, cur.current_index, Len(src)), {"\n"}, TRUE).v
    ELSE Len(src)

\* Cursor::current_remaining_line
current_remaining_line(src, cur) ==
    RemainingLine(src, cur, cur.current_index + remaining_end(src, cur),
                  IF EndsWithCrLf(src, cur.current_index + remaining_end(src, cur))
                  THEN cur.current_index + remaining_end(src, cur) - 1
                  ELSE cur.current_index + remaining_end(src, cur))

\* Cursor::err_expected_token
err_expected_token(cur, message) ==
    [kind |-> "ExpectedToken", val |-> [line |-> cur.line, col |-> cur.col],
     msg |-> message]

Digits == <<"0", "1", "2", "3", "4", "5", "6", "7", "8", "9">>

DigitValue(c) == (CHOOSE d \in 1..10 : Digits[d] = c) - 1

RECURSIVE DigitsValue(_, _)
DigitsValue(s, acc) ==
    IF s = <<>> THEN acc ELSE DigitsValue(Tail(s), acc * 10 + DigitValue(Head(s)))

\* The digits after the sign: at least one, and nothing but digits.  The
\* numbers in the texts of the model have few digits, so the value is always
\* within the range of the type.
ParseDigits(body, negative) ==
    IF body = <<>> \/ \E i \in 1..Len(body) : body[i] \notin {Digits[d] : d \in 1..10}
    THEN None
    ELSE Some(IF negative THEN 0 - DigitsValue(body, 0) ELSE DigitsValue(body, 0))

\* str::parse::<u32> and str::parse::<i32>: an optional sign (only + for
\* u32) before the digits
parse_int(s, signed) ==
    IF Len(s) > 1 /\ (s[1] = "+" \/ (signed /\ s[1] = "-"))
    THEN ParseDigits(Tail(s), s[1] = "-")
    ELSE ParseDigits(s, FALSE)

\* next_token_u32_or / next_token_i32_or on the pulled token: ok_or_else,
\* then parse and map_err
Parsed(pulled, signed, message) ==
    IF ~pulled.val.some
    THEN [cursor |-> pulled.cursor,
          result |-> err_expected_token(pulled.cursor, message)]
    ELSE IF ~parse_int(pulled.val.v, signed).some
    THEN [cursor |-> pulled.cursor,
          result |-> err_expected_token(pulled.cursor, message)]
    ELSE [cursor |-> pulled.cursor,
          result |-> Ok(parse_int(pulled.val.v, signed).v)]

next_token_u32_or(src, cur, message) == Parsed(next_token(src, cur), FALSE, message)

next_token_i32_or(src, cur, message) == Parsed(next_token(src, cur), TRUE, message)

\* 2^e
RECURSIVE Pow2(_)
Pow2(e) == IF e = 0 THEN 1 ELSE 2 * Pow2(e - 1)

\* The exponent of the highest bit set of n >= 1
RECURSIVE Log2(_)
Log2(n) == IF n < 2 THEN 0 ELSE 1 + Log2(n \div 2)

\* f32::to_bits of a whole number 0 <= n < 2^24: sign 0, the biased exponent
\* in bits 23..30, the fraction below it
to_bits(n) ==
    IF n = 0 THEN 0
    ELSE (127 + Log2(n)) * Pow2(23) + (n - Pow2(Log2(n))) * Pow2(23 - Log2(n))

\* str::parse::<f32> on the words of the texts of the model, which are
\* written without sign, fraction or exponent: a run of digits is its value
parse_f32(s) == ParseDigits(s, FALSE)

\* next_token_f32_or on the pulled token
ParsedBits(pulled, message) ==
    IF ~pulled.val.some
    THEN [cursor |-> pulled.cursor,
          result |-> err_expected_token(pulled.cursor, message)]
    ELSE IF ~parse_f32(pulled.val.v).some
    THEN [cursor |-> pulled.cursor,
          result |-> err_expected_token(pulled.cursor, message)]
    ELSE [cursor |-> pulled.cursor,
          result |-> Ok(to_bits(parse_f32(pulled.val.v).v))]

next_token_f32_or(src, cur, message) == ParsedBits(next_token(src, cur), message)

\* next_token_or on the pulled token
Pulled(pulled, message) ==
    IF ~pulled.val.some
    THEN [cursor |-> pulled.cursor,
          result |-> err_expected_token(pulled.cursor, message)]
    ELSE [cursor |-> pulled.cursor, result |-> Ok(pulled.val.v)]

next_token_or(src, cur, message) == Pulled(next_token(src, cur), message)

\* The match arms of BulletShooter, BulletTarget, BulletSize, BulletType and
\* BulletDamageType: the variant a word stands for
VariantOf(enum, word) ==
    CASE enum = "BulletShooter" ->
             (CASE word = <<"U", "P", "S">> -> Some("EndPosition")
                [] word = <<"E", "N", "E">> -> Some("Enemy")
                [] word = <<"C", "E", "N">> -> Some("Center")
                [] OTHER -> None)
      [] enum = "BulletTarget" ->
             (CASE word = <<"P", "L", "R">> -> Some("Player")
                [] word = <<"F", "I", "X">> -> Some("FixedPosition")
                [] OTHER -> None)
      [] enum = "BulletSize" ->
             (CASE word = <<"N">> -> Some("Normal")
                [] word = <<"L">> -> Some("Large")
                [] OTHER -> None)
      [] enum = "BulletType" ->
             (CASE word = <<"C", "I", "R">> -> Some("Circle")
                [] word = <<"S", "Q", "R">> -> Some("Square")
                [] word = <<"N", "D", "L">> -> Some("Needle")
                [] OTHER -> None)
      [] enum = "BulletDamageType" ->
             (CASE word = <<"N", "M", "L">> -> Some("Normal")
                [] word = <<"S", "T", "R">> -> Some("Hard")
                [] word = <<"D", "N", "G">> -> Some("Danger")
                [] OTHER -> None)

\* Enum::from_cursor on the pulled token
Matched(pulled, enum, message) ==
    IF pulled.val.some /\ VariantOf(enum, pulled.val.v).some
    THEN [cursor |-> pulled.cursor, result |-> Ok(VariantOf(enum, pulled.val.v).v)]
    ELSE [cursor |-> pulled.cursor,
          result |-> err_expected_token(pulled.cursor, message)]

\* BulletShooter::from_cursor, BulletTarget::from_cursor, BulletSize::from_cursor,
\* BulletType::from_cursor, BulletDamageType::from_cursor
Enum_from_cursor(src, cur, enum, message) == Matched(next_token(src, cur), enum, message)

\* BulletDamageType::from_str
BulletDamageType_from_str(s) ==
    IF VariantOf("BulletDamageType", s).some
    THEN Ok(VariantOf("BulletDamageType", s).v)
    ELSE [kind |-> "ExpectedToken", val |-> [line |-> 0, col |-> 0],
          msg |-> "internal dummy error"]

\* .unwrap_or(default)
unwrap_or(option, default) == IF option.some THEN option.v ELSE default

\* The field initialisers of a command struct, in the order they are
\* evaluated: the numeric type and the message of each.
U32(message) == [type |-> "int", signed |-> FALSE, message |-> message]
I32(message) == [type |-> "int", signed |-> TRUE, message |-> message]
F32(message) == [type |-> "f32", message |-> message]
Str(message) == [type |-> "str", message |-> message]
Enum(enum, message) == [type |-> "enum", enum |-> enum, message |-> message]

\* CommandTime::from_cursor: measure, offset
CommandTimeFields(message) == <<U32(message), U32(message)>>

\* Version::from_cursor: major, minor, release
VersionFields ==
    <<U32("Version major"), U32("Version minor"), U32("Version release")>>

\* Bell::from_cursor: time, x_position (bullet_palette_id follows)
BellFields == CommandTimeFields("Bell time") \o <<I32("Bell x_position")>>

\* WallPoint::from_cursor: group_id, time, x_position
WallPointFields ==
    <<U32("WallPoint group_id")>> \o CommandTimeFields("WallPoint time")
        \o <<I32("WallPoint x_position")>>

\* Tap::from_cursor: lane_group_id, time, x_position, x_offset
TapFields ==
    <<U32("Tap lane_group_id")>> \o CommandTimeFields("Tap time")
        \o <<I32("Tap x_position"), I32("Tap x_offset")>>

\* One field initialiser: next_token_u32_or(..)?, next_token_i32_or(..)?,
\* next_token_f32_or(..)?, next_token_or(..)? or Enum::from_cursor(cursor)?
read_field(src, cur, field) ==
    CASE field.type = "int" ->
             IF field.signed
             THEN next_token_i32_or(src, cur, field.message)
             ELSE next_token_u32_or(src, cur, field.message)
      [] field.type = "f32" -> next_token_f32_or(src, cur, field.message)
      [] field.type = "str" -> next_token_or(src, cur, field.message)
      [] field.type = "enum" -> Enum_from_cursor(src, cur, field.enum, field.message)

\* The field initialisers in order: each reads where the one before it
\* stopped, and the first error is the result (the ? operator).
RECURSIVE read_fields(_, _, _, _)
RECURSIVE FieldRead(_, _, _, _)
read_fields(src, cur, fields, values) ==
    IF fields = <<>> THEN [cursor |-> cur, result |-> Ok(values)]
    ELSE FieldRead(src, fields, values, read_field(src, cur, Head(fields)))

FieldRead(src, fields, values, read) ==
    IF IsOk(read.result)
    THEN read_fields(src, read.cursor, Tail(fields), Append(values, read.result.val))
    ELSE read

\* Ok(Self { .. }) of the commands with numeric fields only
StructOf(kind, values) ==
    CASE kind = "Version" ->
             [major |-> values[1], minor |-> values[2], release |-> values[3]]
      [] kind = "Tap" ->
             [lane_group_id |-> values[1],
              time |-> [measure |-> values[2], offset |-> values[3]],
              x_position |-> values[4], x_offset |-> values[5]]
      [] kind \in {"WallLeftStart", "WallLeftNext", "WallLeftEnd"} ->
             [group_id |-> values[1],
              time |-> [measure |-> values[2], offset |-> values[3]],
              x_position |-> values[4]]
      [] kind = "BulletPalette" ->
             \* six values after the damage-type tail, eight after the other
             [id |-> values[1], shooter |-> values[2],
              target_x_offset |-> values[3], target |-> values[4],
              speed |-> values[5],
              size |-> IF Len(values) = 6 THEN None ELSE Some(values[6]),
              ty |-> IF Len(values) = 6 THEN None ELSE Some(values[7]),
              random_position_offset |->
                  IF Len(values) = 6 THEN None ELSE Some(values[8]),
              damage_type |-> IF Len(values) = 6 THEN Some(values[6]) ELSE None]

\* Self::Kind(Kind::from_cursor(cursor)?) for those commands
TokenOf(kind, read) ==
    IF IsOk(read.result)
    THEN [cursor |-> read.cursor,
          result |-> Ok([kind |-> kind, value |-> StructOf(kind, read.result.val)])]
    ELSE read

\* Self::Version(Version::from_cursor(cursor)?)
Version_from_cursor(src, cur) ==
    TokenOf("Version", read_fields(src, cur, VersionFields, <<>>))

\* Self::WallLeftStart(WallPoint::from_cursor(cursor)?), likewise Next, End
WallPoint_from_cursor(src, cur, kind) ==
    TokenOf(kind, read_fields(src, cur, WallPointFields, <<>>))

\* Self::Tap(Tap::from_cursor(cursor)?)
Tap_from_cursor(src, cur) ==
    TokenOf("Tap", read_fields(src, cur, TapFields, <<>>))

\* BulletPalette::from_cursor: id, shooter, target_x_offset, target, speed
PaletteFields ==
    <<Str("BulletPalette id"),
      Enum("BulletShooter", "one of UPS, ENE, or CEN"),
      I32("BulletPalette target_x_offset"),
      Enum("BulletTarget", "one of PLR or FIX"),
      F32("BulletPalette speed")>>

\* BulletPalette::from_cursor: the tail chosen on the peeked token, the
\* damage type of the older versions or size, type and position offset
PaletteTailFields(next_token_peeked) ==
    IF IsOk(BulletDamageType_from_str(next_token_peeked))
    THEN <<Enum("BulletDamageType", "one of NML, STR, or DNG")>>
    ELSE <<Enum("BulletSize", "one of N or L"),
           Enum("BulletType", "one of CIR, SQR or NDL"),
           I32("BulletPalette random_position_offset")>>

\* The tail read past the peeked token, as if peek_token had advanced.
PaletteTailAfterPeek(src, read) ==
    IF IsOk(read.result)
    THEN read_fields(src, next_token(src, read.cursor).cursor,
                     PaletteTailFields(unwrap_or(peek_token(src, read.cursor), <<>>)),
                     read.result.val)
    ELSE read

\* BulletPalette::from_cursor after speed: cursor.peek_token().unwrap_or(""),
\* which leaves the cursor where it is, then the tail read from there
PaletteTail(src, read) ==
    IF IsOk(read.result)
    THEN read_fields(src, read.cursor,
                     PaletteTailFields(unwrap_or(peek_token(src, read.cursor), <<>>)),
                     read.result.val)
    ELSE read

\* Self::BulletPalette(BulletPalette::from_cursor(cursor)?)
BulletPalette_from_cursor(src, cur) ==
    TokenOf("BulletPalette",
            PaletteTail(src, read_fields(src, cur, PaletteFields, <<>>)))

\* Self::Creator(Creator::from_cursor(cursor)?) on the remaining line
CreatorOf(name) ==
    IF IsOk(name.result)
    THEN [cursor |-> name.cursor,
          result |-> Ok([kind |-> "Creator", value |-> [name |-> name.result.val]])]
    ELSE name

Creator_from_cursor(src, cur) == CreatorOf(current_remaining_line(src, cur))

\* Bell::from_cursor: bullet_palette_id from the remaining line
BellWith(values, remaining) ==
    IF IsOk(remaining.result)
    THEN [cursor |-> remaining.cursor,
          result |-> Ok([kind |-> "Bell",
                         value |-> [time |-> [measure |-> values[1],
                                              offset |-> values[2]],
                                    x_position |-> values[3],
                                    bullet_palette_id |->
                                        IF remaining.result.val # <<>>
                                        THEN Some(remaining.result.val)
                                        ELSE None]])]
    ELSE remaining

\* Bell::from_cursor after time and x_position
BellAfter(src, read) ==
    IF IsOk(read.result)
    THEN BellWith(read.result.val, current_remaining_line(src, read.cursor))
    ELSE read

\* Self::Bell(Bell::from_cursor(cursor)?)
Bell_from_cursor(src, cur) ==
    BellAfter(src, read_fields(src, cur, BellFields, <<>>))

\* Token::from_cursor: the section-name branch
SectionNameOf(ignored) ==
    IF IsOk(ignored.result)
    THEN [cursor |-> ignored.cursor,
          result |-> Ok([kind |-> "SectionName", value |-> <<>>])]
    ELSE ignored

\* The command keywords of the texts of the model.
Keywords ==
    [Version |-> <<"V", "E", "R", "S", "I", "O", "N">>,
     Creator |-> <<"C", "R", "E", "A", "T", "O", "R">>,
     Bpl |-> <<"B", "P", "L">>,
     Btp |-> <<"B", "T", "P">>,
     Bell |-> <<"B", "E", "L">>,
     Tap |-> <<"T", "A", "P">>,
     Wls |-> <<"W", "L", "S">>,
     Wln |-> <<"W", "L", "N">>,
     Wle |-> <<"W", "L", "E">>]

\* Token::from_cursor on the pulled command word
Token_of_command(src, cur, command) ==
    IF Head(command) = "["
    THEN SectionNameOf(current_remaining_line(src, cur))
    ELSE CASE command = Keywords.Version -> Version_from_cursor(src, cur)
           [] command = Keywords.Creator -> Creator_from_cursor(src, cur)
           [] command = Keywords.Bpl -> BulletPalette_from_cursor(src, cur)
           [] command = Keywords.Btp ->
                  [cursor |-> cur, result |-> Ok([kind |-> "Btp", value |-> <<>>])]
           [] command = Keywords.Bell -> Bell_from_cursor(src, cur)
           [] command = Keywords.Tap -> Tap_from_cursor(src, cur)
           [] command = Keywords.Wls -> WallPoint_from_cursor(src, cur, "WallLeftStart")
           [] command = Keywords.Wln -> WallPoint_from_cursor(src, cur, "WallLeftNext")
           [] command = Keywords.Wle -> WallPoint_from_cursor(src, cur, "WallLeftEnd")
           [] OTHER ->
                  [cursor |-> cur,
                   result |-> [kind |-> "UnknownCommand",
                               val |-> [line |-> cur.line, col |-> cur.col],
                               msg |-> ""]]

\* Token::from_cursor
Token_from_cursor(src, cur) ==
    IF ~next_token(src, cur).val.some
    THEN [cursor |-> cur, result |-> err_expected_token(cur, "valid command")]
    ELSE Token_of_command(src, next_token(src, cur).cursor, next_token(src, cur).val.v)

----------------------------------------------------------------------------
(* SpecLex: tokenize over texts built from command lines. *)

\* Lines that follow the grammar of their command, and section-header lines.
WellFormedLines ==
    { <<"[", "H", "]">>,
      <<"V", "E", "R", "S", "I", "O", "N", " ", "1", " ", "0", " ", "0">>,
      <<"C", "R", "E", "A", "T", "O", "R", " ", "a">>,
      <<"B", "T", "P">>,
      <<"B", "E", "L", " ", "0", " ", "1", " ", "0">>,
      <<"B", "E", "L", " ", "0", " ", "1", " ", "0", " ", "p">>,
      <<"T", "A", "P", " ", "1", " ", "0", " ", "1", " ", "0", " ", "0">> }

\* A command short of arguments, a word that is no command, a command with
\* an argument too many, a command whose first argument is no number, and a
\* line of numbers alone.
MalformedLines ==
    { <<"T", "A", "P", " ", "1", " ", "0">>,
      <<"F", "O", "O">>,
      <<"B", "T", "P", " ", "1">>,
      <<"V", "E", "R", "S", "I", "O", "N", " ", "x", " ", "0", " ", "0">>,
      <<"1", " ", "0", " ", "0">> }

BlankLine == <<>>

LineTexts == WellFormedLines \cup MalformedLines \cup {BlankLine}

\* Line endings a chart file is written with.
LineEndings == { <<"\n">>, <<"\r", "\n">> }

RECURSIVE Join(_, _)
Join(lines, ending) ==
    IF lines = <<>> THEN <<>>
    ELSE IF Len(lines) = 1 THEN lines[1]
    ELSE lines[1] \o ending \o Join(Tail(lines), ending)

\* The texts tokenize is called with: up to MaxLines lines, the last one
\* with or without its line ending.
Sources(max_lines) ==
    { Join(lines, ending) \o (IF terminated THEN ending ELSE <<>>) :
          lines \in SeqsUpTo(LineTexts, max_lines),
          ending \in LineEndings,
          terminated \in BOOLEAN }

InitLex ==
    /\ IdleOrder
    /\ IdleHold
    /\ IdleBullets
    /\ IdleResolve
    /\ IdleParse
    /\ source \in Sources(MaxLines)
    /\ cursor = Cursor_new
    /\ tokens = <<>>
    /\ lresult = NotRun

\* One iteration of the loop of tokenize: the next token is pushed, or the
\* error of Token::from_cursor is returned, or the call aborts.
LexToken ==
    /\ lresult = NotRun
    /\ ~is_end(source, cursor)
    /\ cursor' = Token_from_cursor(source, cursor).cursor
    /\ IF IsOk(Token_from_cursor(source, cursor).result)
       THEN /\ tokens' = Append(tokens, Token_from_cursor(source, cursor).result.val)
            /\ lresult' = lresult
       ELSE /\ tokens' = tokens
            /\ lresult' = Token_from_cursor(source, cursor).result
    /\ UNCHANGED <<source, holdVars, bulletVars, resolveVars, parseVars, orderVars>>

\* The loop of tokenize ends: Ok(TokenStream::from_tokens(tokens)).
LexFinish ==
    /\ lresult = NotRun
    /\ is_end(source, cursor)
    /\ lresult' = Ok(tokens)
    /\ UNCHANGED <<source, cursor, tokens, holdVars, bulletVars, resolveVars, parseVars, orderVars>>

NextLex == LexToken \/ LexFinish

SpecLex == InitLex /\ [][NextLex]_vars

----------------------------------------------------------------------------
(* Properties of tokenize (SpecLex). *)

\* The lines of a text: the pieces between line feeds, the last piece
\* included even when no line feed follows it.
RECURSIVE SplitLines(_, _)
SplitLines(s, line) ==
    IF s = <<>> THEN <<line>>
    ELSE IF Head(s) = "\n" THEN <<line>> \o SplitLines(Tail(s), <<>>)
    ELSE SplitLines(Tail(s), Append(line, Head(s)))

IsNonBlank(line) == trim(line) # <<>>

NonBlankLines(s) == SelectSeq(SplitLines(s, <<>>), IsNonBlank)

\* The first word of a line.
Keyword(line) ==
    Slice(trim(line), 0, map_or(find(trim(line), Whitespace, TRUE), Len(trim(line)), 0))

\* The token kind the line's keyword stands for.
KindOfLine(line) ==
    CASE Head(Keyword(line)) = "[" -> "SectionName"
      [] Keyword(line) = Keywords.Version -> "Version"
      [] Keyword(line) = Keywords.Creator -> "Creator"
      [] Keyword(line) = Keywords.Bpl -> "BulletPalette"
      [] Keyword(line) = Keywords.Btp -> "Btp"
      [] Keyword(line) = Keywords.Bell -> "Bell"
      [] Keyword(line) = Keywords.Tap -> "Tap"
      [] OTHER -> "Unknown"

\* Every non-blank line of the text is a well-formed line.
WellFormedSource ==
    \A i \in 1..Len(NonBlankLines(source)) :
        trim(NonBlankLines(source)[i]) \in WellFormedLines

TokenizeReturned == lresult.kind \notin {"Idle", "NotRun"}

\* C8: for every text made only of well-formed command lines and section
\* header lines (CREATOR, BEL and section-header lines included, the last
\* line with or without its line ending), tokenize returns Ok with exactly
\* one token per non-blank line, in the order of the lines, and a
\* SectionName token for each section-header line.
C8_WellFormedSourceTokenizes ==
    (TokenizeReturned /\ WellFormedSource) =>
        /\ IsOk(lresult)
        /\ Len(lresult.val) = Len(NonBlankLines(source))
        /\ \A i \in 1..Len(lresult.val) :
               lresult.val[i].kind = KindOfLine(NonBlankLines(source)[i])

\* The words of a line: the pieces between runs of whitespace.
RECURSIVE Words(_)
Words(s) ==
    IF trim_start(s) = <<>> THEN <<>>
    ELSE <<Slice(trim_start(s), 0,
                 map_or(find(trim_start(s), Whitespace, TRUE), Len(trim_start(s)), 0))>>
         \o Words(Slice(trim_start(s),
                        map_or(find(trim_start(s), Whitespace, TRUE),
                               Len(trim_start(s)), 0),
                        Len(trim_start(s))))

\* The numeric fields of the commands of fixed arity, by token kind.
FixedFields ==
    [Version |-> VersionFields, Btp |-> <<>>, Tap |-> TapFields]

\* The arguments of a line: its words after the keyword.
Arguments(line) == Tail(Words(line))

\* A line of a command of fixed arity with fewer or more arguments than the
\* command reads, or with an argument that is no number of its field's type.
Misargued(line) ==
    /\ KindOfLine(line) \in DOMAIN FixedFields
    /\ \/ Len(Arguments(line)) # Len(FixedFields[KindOfLine(line)])
       \/ \E i \in 1..Len(Arguments(line)) :
              ~parse_int(Arguments(line)[i],
                         FixedFields[KindOfLine(line)][i].signed).some

\* Line i is the first line of the text that is not well-formed, and it is
\* a misargued line.
FirstFaultIsMisargued(i) ==
    /\ i \in 1..Len(NonBlankLines(source))
    /\ Misargued(NonBlankLines(source)[i])
    /\ \A k \in 1..(i - 1) : trim(NonBlankLines(source)[k]) \in WellFormedLines

\* C16: when the line of a recognized command has fewer or more arguments
\* than the fixed arity of the command, or a numeric argument that does not
\* parse as its type, tokenize returns LexError::ExpectedToken: it neither
\* returns Ok with arguments taken from the following line nor reports
\* another kind of error.
C16_MisarguedLineIsExpectedToken ==
    (TokenizeReturned /\ \E i \in 1..Len(NonBlankLines(source)) : FirstFaultIsMisargued(i))
        => lresult.kind = "ExpectedToken"

----------------------------------------------------------------------------
(* SpecPalette: tokenize over texts of bullet palette lines of both         *)
(* versions of the syntax, whole and cut short.                             *)

MaxPaletteLines == 2

\* BPL lines with the damage-type tail and with the size, type and offset
\* tail; the same lines cut before the tail and inside it; a damage-type
\* word on a line of its own; a command without arguments.
PaletteLines ==
    { <<"B", "P", "L", " ", "p", " ", "U", "P", "S", " ", "0", " ",
        "P", "L", "R", " ", "1", " ", "N", "M", "L">>,
      <<"B", "P", "L", " ", "q", " ", "E", "N", "E", " ", "-", "1", " ",
        "F", "I", "X", " ", "2", " ", "L", " ", "C", "I", "R", " ", "3">>,
      <<"B", "P", "L", " ", "p", " ", "C", "E", "N", " ", "0", " ",
        "P", "L", "R", " ", "1">>,
      <<"B", "P", "L", " ", "p", " ", "U", "P", "S", " ", "0", " ",
        "P", "L", "R", " ", "1", " ", "N">>,
      <<"D", "N", "G">>,
      <<"B", "T", "P">> }

PaletteSources(max_lines) ==
    { Join(lines, ending) \o (IF terminated THEN ending ELSE <<>>) :
          lines \in SeqsUpTo(PaletteLines, max_lines),
          ending \in LineEndings,
          terminated \in BOOLEAN }

InitPalette ==
    /\ IdleOrder
    /\ IdleHold
    /\ IdleBullets
    /\ IdleResolve
    /\ IdleParse
    /\ source \in PaletteSources(MaxPaletteLines)
    /\ cursor = Cursor_new
    /\ tokens = <<>>
    /\ lresult = NotRun

SpecPalette == InitPalette /\ [][NextLex]_vars

----------------------------------------------------------------------------
(* Properties of BulletPalette tokens (SpecPalette). *)

\* The step of tokenize pushes a BulletPalette token.
PalettePushed ==
    /\ Len(tokens') = Len(tokens) + 1
    /\ tokens'[Len(tokens')].kind = "BulletPalette"

\* The words the cursor moved over in the step.
WordsConsumed == Words(Slice(source, cursor.current_index, cursor'.current_index))

\* The token has the shape of the older syntax: damage_type alone.
DamageShape(palette) ==
    /\ palette.damage_type.some
    /\ ~palette.size.some
    /\ ~palette.ty.some
    /\ ~palette.random_position_offset.some

\* The token has the other shape: size, type and offset, no damage_type.
SizeShape(palette) ==
    /\ ~palette.damage_type.some
    /\ palette.size.some
    /\ palette.ty.some
    /\ palette.random_position_offset.some

\* The word after speed: the seventh word from the keyword on.
AfterSpeed(words) == words[7]

\* C17: every BulletPalette token tokenize produces has one of two shapes:
\* damage_type set and size, type and random_position_offset absent when the
\* word after speed is NML, STR or DNG, or size, type and
\* random_position_offset set and damage_type absent otherwise; the peeked
\* word is consumed once, as the first word of the tail, so that the step
\* moves over seven words in the first case and nine in the second.
C17_PaletteHasOneOfTwoShapes ==
    [][PalettePushed =>
          \/ /\ Len(WordsConsumed) = 7
             /\ IsOk(BulletDamageType_from_str(AfterSpeed(WordsConsumed)))
             /\ DamageShape(tokens'[Len(tokens')].value)
             /\ tokens'[Len(tokens')].value.damage_type
                    = Some(VariantOf("BulletDamageType", AfterSpeed(WordsConsumed)).v)
          \/ /\ Len(WordsConsumed) = 9
             /\ ~IsOk(BulletDamageType_from_str(AfterSpeed(WordsConsumed)))
             /\ SizeShape(tokens'[Len(tokens')].value)
             /\ tokens'[Len(tokens')].value.size
                    = Some(VariantOf("BulletSize", AfterSpeed(WordsConsumed)).v)]_vars

\* C17 witness: tokenize returned Ok on a text of two palette lines, the
\* first token with the damage-type shape and the second with the other.
C17_Witness_BothShapesTokenized ==
    /\ IsOk(lresult)
    /\ Len(lresult.val) = 2
    /\ lresult.val[1].kind = "BulletPalette"
    /\ DamageShape(lresult.val[1].value)
    /\ lresult.val[2].kind = "BulletPalette"
    /\ SizeShape(lresult.val[2].value)

----------------------------------------------------------------------------
(* SpecTrack: Track::from_raw on the sections of one category, with ids     *)
(* that may repeat and point lists that may be too short.                   *)

MaxTrackSections == 2

\* The lists of RawTrack by category: lanes, walls, colorful lanes, beams,
\* oblique beams.
Categories ==
    {{"lanes_left", "lanes_center", "lanes_right", "enemy_lanes"},
     {"walls_left", "walls_right"},
     {"colorful_lanes"}, {"beams"}, {"oblique_beams"}}

\* The measures of the points of a section: two valid lists that differ,
\* a one-point list and the empty list.
PointMeasures == {<<0, 1>>, <<1, 1>>, <<0>>, <<>>}

CategoryItems(category) == [kind : category, id : GroupIds, ms : PointMeasures]

CategoryCharts(max_sections) ==
    UNION {{RawOgkrOf(sections, <<>>, <<>>, <<>>) :
                sections \in SeqsUpTo(CategoryItems(category), max_sections)} :
           category \in Categories}

InitTrack ==
    /\ IdleOrder
    /\ IdleHold
    /\ IdleBullets
    /\ IdleParse
    /\ IdleLex
    /\ raw \in CategoryCharts(MaxTrackSections)
    /\ rtrack = NotRun
    /\ rnotes = NotRun
    /\ rbullets = NotRun
    /\ rogkr = NotRun
    /\ rpc = "track"

NextTrack == ResolveTrack

SpecTrack == InitTrack /\ [][NextTrack]_vars

----------------------------------------------------------------------------
(* Properties of Track::from_raw (SpecTrack, SpecResolve). *)

TrackCalled == rpc \in {"notes", "bullets", "meta", "done"}

\* The lists whose entities share the lane lookup, in the order from_raw
\* merges them: a later list replaces the ids of an earlier one.
LaneLists ==
    <<"lanes_left", "lanes_center", "lanes_right", "enemy_lanes",
      "walls_left", "walls_right">>

LaneTypeOf ==
    [lanes_left |-> "Left", lanes_center |-> "Center", lanes_right |-> "Right",
     enemy_lanes |-> "Enemy", walls_left |-> "WallLeft", walls_right |-> "WallRight"]

\* The result of building the entity of a section of list kind.
EntityOf(kind, section) ==
    CASE kind \in {"walls_left", "walls_right"} ->
             Lane_from_wall_section(section, LaneTypeOf[kind])
      [] kind = "colorful_lanes" -> ColorfulLane_from_section(section)
      [] kind = "beams" -> Beam_from_section(section)
      [] kind = "oblique_beams" -> ObliqueBeam_from_section(section)
      [] OTHER -> Lane_from_lane_section(section, LaneTypeOf[kind])

\* The id lookup of the resolved track that holds the entities of a list.
LookupOf(track, kind) ==
    CASE kind = "colorful_lanes" -> track.colorful_lanes_data
      [] kind = "beams" -> track.beams_data
      [] kind = "oblique_beams" -> track.oblique_beams_data
      [] OTHER -> track.lanes_data

EverySectionHasTwoPoints ==
    \A kind \in SectionKinds :
        \A n \in 1..Len(raw.track[kind]) : Len(raw.track[kind][n].points) >= 2

\* Sections i < j of one list carry the same id.
SameId(kind, i, j) ==
    /\ i \in 1..Len(raw.track[kind])
    /\ j \in 1..Len(raw.track[kind])
    /\ i < j
    /\ IdOf(raw.track[kind][i]) = IdOf(raw.track[kind][j])

\* No section of the list after j, and no section of a list merged into the
\* same lookup after this list, carries the id of section j.
NotReplaced(kind, j) ==
    /\ \A n \in (j + 1)..Len(raw.track[kind]) :
           IdOf(raw.track[kind][n]) # IdOf(raw.track[kind][j])
    /\ \A a, b \in 1..Len(LaneLists) :
           (LaneLists[a] = kind /\ a < b) =>
               \A n \in 1..Len(raw.track[LaneLists[b]]) :
                   IdOf(raw.track[LaneLists[b]][n]) # IdOf(raw.track[kind][j])

\* C11 (as the code has it): when two sections of one list carry the same
\* id and every section has at least two points, Track::from_raw returns Ok
\* and the id lookup holds, for that id, the entity built from the later of
\* the two sections (the last one that carries the id).
C11_DuplicateIdLastSectionWins ==
    (TrackCalled /\ EverySectionHasTwoPoints) =>
        /\ IsOk(rtrack)
        /\ \A kind \in SectionKinds : \A i, j \in 1..Len(raw.track[kind]) :
               (SameId(kind, i, j) /\ NotReplaced(kind, j)) =>
                   LookupOf(rtrack.val, kind)[IdOf(raw.track[kind][j])]
                       = EntityOf(kind, raw.track[kind][j]).val

\* C11 witness: two beam sections with record id 1 and different points
\* were resolved, and the beam lookup holds the beam of the second one.
C11_Witness_SecondBeamStored ==
    /\ TrackCalled
    /\ IsOk(rtrack)
    /\ Len(raw.track.beams) = 2
    /\ raw.track.beams[1].record_id = 1
    /\ raw.track.beams[2].record_id = 1
    /\ raw.track.beams[1].points # raw.track.beams[2].points
    /\ rtrack.val.beams_data[1] = Beam_from_section(raw.track.beams[2]).val

\* C11 (as stated): when two sections of the same category carry the same
\* id, resolution does not fail and the id lookup holds the entity built
\* from the first of the two sections in source order.
C11_DuplicateIdFirstSectionWins ==
    (TrackCalled /\ EverySectionHasTwoPoints) =>
        /\ IsOk(rtrack)
        /\ \A kind \in SectionKinds : \A i, j \in 1..Len(raw.track[kind]) :
               (SameId(kind, i, j)
                    /\ \A n \in 1..(i - 1) :
                           IdOf(raw.track[kind][n]) # IdOf(raw.track[kind][i])) =>
                   LookupOf(rtrack.val, kind)[IdOf(raw.track[kind][i])]
                       = EntityOf(kind, raw.track[kind][i]).val

SomeSectionIsShort ==
    \E kind \in SectionKinds :
        \E n \in 1..Len(raw.track[kind]) : Len(raw.track[kind][n].points) < 2

\* C12: for every section category (wall, lane, enemy lane, colorful lane,
\* beam, oblique beam), resolving a raw section with fewer than two points
\* (zero or one) returns SemanticError, not a resolved entity or an abort.
C12_ShortSectionIsSemanticError ==
    (TrackCalled /\ SomeSectionIsShort) => rtrack.kind = "SemanticError"

----------------------------------------------------------------------------
(* Properties of the section loops of parse_tokens (SpecParse). *)

\* Command 1 is the Start of a section of kind, commands 2 .. j - 1 are
\* its Next tokens with the Start's id: the section loop pulls command j
\* (or finds no command when j is past the last one).
SectionLoopAt(kind, j) ==
    /\ Running
    /\ commands # <<>>
    /\ j \in 2..(Len(commands) + 1)
    /\ commands[1].tag = StartTag[kind]
    /\ \A i \in 2..(j - 1) :
           commands[i].tag = NextTag[kind] /\ commands[i].id = commands[1].id

\* The section loop pulls command j, which is not a Next or End of kind.
ForeignPulled(kind, j) ==
    /\ SectionLoopAt(kind, j)
    /\ j <= Len(commands)
    /\ commands[j].tag \notin {NextTag[kind], EndTag[kind]}

\* C13 (as the code has it): between a section's Start and its End, a
\* pulled token that is not the Next or End of that exact kind (an
\* unrelated command, another kind's Next, a nested Start) makes
\* parse_tokens return SemanticError, and the aggregate gains nothing.
C13_ForeignTokenInSectionIsSemanticError ==
    [][ \A kind \in SectionKinds : \A j \in 2..Len(commands) :
            ForeignPulled(kind, j) =>
                /\ presult'.kind = "SemanticError"
                /\ ogkr' = ogkr ]_vars

\* C13 witness: a left-wall Start, its Next, then a tap: parse_tokens
\* stopped at the tap with the SemanticError.
C13_Witness_TapInsideWall ==
    /\ presult.kind = "SemanticError"
    /\ Len(stream) = 3
    /\ stream[1].tag = "WallLeftStart"
    /\ stream[2].tag = "WallLeftNext" /\ stream[2].id = stream[1].id
    /\ stream[3].tag = "Tap"
    /\ commands = <<>>

\* C13 (as stated): such a token makes parse_tokens return SyntaxError.
C13_ForeignTokenInSectionIsSyntaxError ==
    [][ \A kind \in SectionKinds : \A j \in 2..Len(commands) :
            ForeignPulled(kind, j) => presult'.kind = "SyntaxError" ]_vars

\* C14: when the stream ends after a section's Start, or after any number
\* of its Next tokens, before its End, parse_tokens returns
\* SemanticErrorExpectedCommand (not SyntaxError, SemanticError or Ok).
C14_StreamEndInSectionIsExpectedCommand ==
    [][ \A kind \in SectionKinds :
            SectionLoopAt(kind, Len(commands) + 1) =>
                presult'.kind = "SemanticErrorExpectedCommand" ]_vars

\* C14 witness: the stream was a left-lane Start and one Next, and
\* parse_tokens returned SemanticErrorExpectedCommand.
C14_Witness_LaneWithoutEnd ==
    /\ presult.kind = "SemanticErrorExpectedCommand"
    /\ Len(stream) = 2
    /\ stream[1].tag = "LaneLeftStart"
    /\ stream[2].tag = "LaneLeftNext" /\ stream[2].id = stream[1].id
    /\ commands = <<>>

ContinuationTags ==
    {NextTag[kind] : kind \in SectionKinds} \cup {EndTag[kind] : kind \in SectionKinds}

\* C15: a Next or End token that parse_tokens meets at top level makes it
\* return SyntaxError, and no list of the aggregate receives the point.
C15_TopLevelContinuationIsSyntaxError ==
    [][ (Running /\ commands # <<>> /\ commands[1].tag \in ContinuationTags) =>
            /\ presult'.kind = "SyntaxError"
            /\ ogkr' = ogkr ]_vars

\* C15 witness: a complete beam section, then a beam Next on its own:
\* parse_tokens returned SyntaxError at the Next.
C15_Witness_NextAfterCompleteBeam ==
    /\ presult.kind = "SyntaxError"
    /\ Len(stream) = 3
    /\ stream[1].tag = "BeamStart"
    /\ stream[2].tag = "BeamEnd" /\ stream[2].id = stream[1].id
    /\ stream[3].tag = "BeamNext"
    /\ Len(ogkr.track.beams) = 1
    /\ commands = <<>>

----------------------------------------------------------------------------
(* SpecLanes: parse_tokens on a stream about the sections of one wall or    *)
(* lane list, whose points carry any time, then Track::from_raw on the      *)
(* parsed chart.                                                            *)

MaxLaneTokens == 3

\* The Start, Next and End of the list with any measure, a section header
\* line and a tap.
LaneTokenShapes(kind) ==
    [tag : {StartTag[kind], NextTag[kind], EndTag[kind]}, id : {1},
     ms : {<<m>> : m \in 0..MaxMeasure}]
    \cup [tag : {"Tap"}, id : {1}, ms : {<<0>>}]
    \cup [tag : {"SectionName"}, id : {0}, ms : {<<0>>}]

LaneStreams(max_tokens) ==
    UNION {SeqsUpTo(LaneTokenShapes(LaneLists[k]), max_tokens) : k \in 1..Len(LaneLists)}

InitLanes ==
    /\ IdleOrder
    /\ IdleHold
    /\ IdleBullets
    /\ IdleResolve
    /\ IdleLex
    /\ stream \in LaneStreams(MaxLaneTokens)
    /\ commands = stream
    /\ ogkr = RawOgkr_default
    /\ presult = NotRun

\* Ogkr::from_raw on the chart parse_tokens returned:
\* let track = Track::from_raw(raw.track)?;
TrackFromParsed ==
    /\ IsOk(presult)
    /\ rpc = "idle"
    /\ raw' = presult.val
    /\ rtrack' \in Track_from_raw(presult.val.track)
    /\ rpc' = "done"
    /\ UNCHANGED <<rnotes, rbullets, rogkr, holdVars, bulletVars, parseVars, lexVars, orderVars>>

NextLanes == NextParse \/ TrackFromParsed

SpecLanes == InitLanes /\ [][NextLanes]_vars

----------------------------------------------------------------------------
(* Properties of the lanes of the resolved track (SpecLanes). *)

\* Each point of the list is at the time of the point before it or later.
SortedByTime(points) ==
    \A i \in 2..Len(points) :
        TimingPoint_cmp(points[i].time, points[i - 1].time) # "Less"

\* C18: every Lane of the resolved track, built from any wall or lane
\* section raw parsing accepts, has its points sorted by time: the timing
\* key of each point is greater than or equal to that of the point before.
C18_LanePointsSortedByTime ==
    (rpc = "done" /\ IsOk(rtrack)) =>
        \A id \in DOMAIN rtrack.val.lanes_data :
            SortedByTime(rtrack.val.lanes_data[id].points)


----------------------------------------------------------------------------
(* SpecNotes: Track::from_raw and Notes::from_raw on charts of a left lane, *)
(* a left wall and a right wall with any notes, critical or not, on them.   *)

MaxIndexedNotes == 2

NoteIndexCharts(max_notes) ==
    {RawOgkrOf(SkeletonSections, notes, <<>>, <<>>) :
        notes \in SeqsUpTo(NoteItems, max_notes)}

InitNotes ==
    /\ IdleOrder
    /\ IdleHold
    /\ IdleBullets
    /\ IdleParse
    /\ IdleLex
    /\ raw \in NoteIndexCharts(MaxIndexedNotes)
    /\ rtrack = NotRun
    /\ rnotes = NotRun
    /\ rbullets = NotRun
    /\ rogkr = NotRun
    /\ rpc = "track"

NextNotes == ResolveTrack \/ ResolveNotes

SpecNotes == InitNotes /\ [][NextNotes]_vars

----------------------------------------------------------------------------
(* Properties of the note indexes of Notes::from_raw (SpecNotes). *)

\* The number of notes an index holds under the given timing keys.
RECURSIVE NoteCount(_, _)
NoteCount(index, keys) ==
    IF keys = {} THEN 0
    ELSE Len(index[CHOOSE k \in keys : TRUE])
         + NoteCount(index, keys \ {CHOOSE k \in keys : TRUE})

\* C19: after a successful Notes::from_raw every raw note is in the
\* resolved index: taps holds as many notes as raw taps plus raw critical
\* taps, holds as many as raw holds plus critical holds, flicks as many as
\* raw flicks plus critical flicks, also when a critical and a non-critical
\* note share a timing key.
C19_EveryRawNoteIsIndexed ==
    IsOk(rnotes) =>
        /\ NoteCount(rnotes.val.taps, DOMAIN rnotes.val.taps)
               = Len(raw.notes.taps) + Len(raw.notes.critical_taps)
        /\ NoteCount(rnotes.val.holds, DOMAIN rnotes.val.holds)
               = Len(raw.notes.holds) + Len(raw.notes.critical_holds)
        /\ NoteCount(rnotes.val.flicks, DOMAIN rnotes.val.flicks)
               = Len(raw.notes.flicks) + Len(raw.notes.critical_flicks)

----------------------------------------------------------------------------
(* Properties of the path of a resolved HoldNote (SpecHold). *)

\* C20: the points path of every resolved HoldNote includes the start and
\* the end of the hold: its first element is the note's start position and
\* its last element the note's end position, in time and in x, also when
\* the start or end time is the time of a lane point whose x differs from
\* the x of the hold.  Checked on lanes with strictly increasing times.
C20_PathIncludesStartAndEnd ==
    (HoldCalled /\ StrictlyIncreasing(hlane.val.points) /\ IsOk(hnote)) =>
        /\ hnote.val.points[1] = hnote.val.start
        /\ hnote.val.points[Len(hnote.val.points)] = hnote.val.end

----------------------------------------------------------------------------
(* SpecInterval: one lane section and one hold on it, all at x 0, the      *)
(* times of the points and of the hold free.                               *)

MaxIntervalPoints == 2

\* command::LanePoint of group 1 at x 0
IntervalLanePoints == [group_id : {1}, time : CommandTime, x_position : {0}]

\* command::Hold on lane 1 at x 0
IntervalHolds ==
    [lane_group_id : {1},
     start_time : CommandTime, start_x_position : {0}, start_x_offset : {0},
     end_time : CommandTime, end_x_position : {0}, end_x_offset : {0}]

IntervalSections(max_points) ==
    [group_id : {1}, points : SeqsUpTo(IntervalLanePoints, max_points)]

InitInterval ==
    /\ IdleOrder
    /\ IdleBullets
    /\ IdleResolve
    /\ IdleParse
    /\ IdleLex
    /\ hsection \in IntervalSections(MaxIntervalPoints)
    /\ hhold \in IntervalHolds
    /\ hlane = NotRun
    /\ hnote = NotRun
    /\ hpc = "lane"

SpecInterval == InitInterval /\ [][NextHold]_vars

----------------------------------------------------------------------------
(* Properties of the fallback of create_points_within_time_interval       *)
(* (SpecInterval).                                                         *)

\* The indices of the call on the lane and the hold of the state, with the
\* binary search behaving as variant.
IndicesOf(variant) ==
    IntervalIndices(binary_search_by(variant, hlane.val.points, HoldStart.time),
                    binary_search_by(variant, hlane.val.points, HoldEnd.time))

\* The range is invalid: start after end, or end out of bounds.
InvalidRange(ix) ==
    ix.start_index > ix.end_index \/ ix.end_index >= Len(hlane.val.points)

\* The call of the state ran with the binary search behaving as variant.
RanWith(variant) ==
    hnote = HoldNote_from_hold_and_lane(variant, hhold, hlane.val, FALSE)

\* C21: whenever the index range computed by the two binary searches is
\* invalid (start index greater than end index, or end index not less than
\* the number of lane points), create_points_within_time_interval returns
\* Ok with exactly the two-element path [start, end] and no lane point.
C21_InvalidRangeGivesStartEnd ==
    HoldCalled =>
        \A variant \in BsVariants :
            (RanWith(variant) /\ InvalidRange(IndicesOf(variant))) =>
                /\ IsOk(hnote)
                /\ hnote.val.points = <<HoldStart, HoldEnd>>

\* C21 witness: a hold that lies strictly between the two points of a lane
\* with increasing times got the path [start, end].
C21_Witness_HoldBetweenLanePoints ==
    /\ HoldCalled
    /\ StrictlyIncreasing(hlane.val.points)
    /\ Len(hlane.val.points) = 2
    /\ TimingPoint_cmp(hlane.val.points[1].time, HoldStart.time) = "Less"
    /\ TimingPoint_cmp(HoldStart.time, HoldEnd.time) = "Less"
    /\ TimingPoint_cmp(HoldEnd.time, hlane.val.points[2].time) = "Less"
    /\ \A variant \in BsVariants : InvalidRange(IndicesOf(variant))
    /\ IsOk(hnote)
    /\ hnote.val.points = <<HoldStart, HoldEnd>>

----------------------------------------------------------------------------
(* SpecMeasures: parse_raw_ogkr on charts of left walls, right walls and   *)
(* left lanes of two points each, at any measures in time order.           *)

MaxMeasureSections == 3

\* Sections of two points, the second not before the first.
MeasureItems ==
    {item \in [kind : {"walls_left", "walls_right", "lanes_left"},
               id : 1..MaxLaneId,
               ms : {<<a, b>> : a, b \in 0..MaxMeasure}] :
        item.ms[1] <= item.ms[2]}

MeasureCharts(max_sections) ==
    {RawOgkrOf(sections, <<>>, <<>>, <<>>) :
        sections \in SeqsUpTo(MeasureItems, max_sections)}

InitMeasures ==
    /\ IdleOrder
    /\ IdleHold
    /\ IdleBullets
    /\ IdleParse
    /\ IdleLex
    /\ raw \in MeasureCharts(MaxMeasureSections)
    /\ rtrack = NotRun
    /\ rnotes = NotRun
    /\ rbullets = NotRun
    /\ rogkr = NotRun
    /\ rpc = "track"

SpecMeasures == InitMeasures /\ [][NextResolve]_vars

----------------------------------------------------------------------------
(* Properties of ExtraMetadata::new (SpecMeasures). *)

\* The measures of the points of the wall and lane sections of the chart.
WallAndLaneMeasures ==
    UNION {UNION {{raw.track[LaneLists[k]][n].points[i].time.measure :
                       i \in 1..Len(raw.track[LaneLists[k]][n].points)} :
                  n \in 1..Len(raw.track[LaneLists[k]])} :
           k \in 1..Len(LaneLists)}

\* C22: after a successful resolution extra_metadata.num_measures is the
\* largest measure number among the timing keys of all points of all wall
\* and lane sections of the chart.
C22_NumMeasuresIsLargestMeasure ==
    (ResolveDone /\ IsOk(rogkr)) =>
        /\ rogkr.val.extra_metadata.num_measures \in WallAndLaneMeasures
        /\ \A m \in WallAndLaneMeasures : m <= rogkr.val.extra_metadata.num_measures

----------------------------------------------------------------------------
(* SpecTotals: parse_tokens on streams of header-total commands, with a    *)
(* left wall section, a tap and a section header line among them.          *)

MaxTotalTokens == 3

\* The values a header-total command carries.
TotalValues == {1, 2}

TotalTokens ==
    [tag : DOMAIN TotalField, id : {0}, ms : {<<0>>}, value : TotalValues]
    \cup [tag : {"WallLeftStart", "WallLeftEnd", "Tap"}, id : {1}, ms : {<<0>>},
          value : {0}]
    \cup [tag : {"SectionName"}, id : {0}, ms : {<<0>>}, value : {0}]

TotalStreams(max_tokens) == SeqsUpTo(TotalTokens, max_tokens)

InitTotals ==
    /\ IdleOrder
    /\ IdleHold
    /\ IdleBullets
    /\ IdleResolve
    /\ IdleLex
    /\ stream \in TotalStreams(MaxTotalTokens)
    /\ commands = stream
    /\ ogkr = RawOgkr_default
    /\ presult = NotRun

NextTotals == NextParse \/ ParseTotal

SpecTotals == InitTotals /\ [][NextTotals]_vars

----------------------------------------------------------------------------
(* Properties of the header totals (SpecTotals). *)

\* The field of Totals that bears the name of each header-total command:
\* T_TOTAL, T_TAP, T_HOLD, T_SIDE, T_SHOLD, T_FLICK, T_BELL.
MatchingField ==
    [TotalNotes |-> "notes", TotalTapNotes |-> "tap", TotalHoldNotes |-> "hold",
     TotalSideNotes |-> "side", TotalSideHoldNotes |-> "side_hold",
     TotalFlickNotes |-> "flick", TotalBellNotes |-> "bell"]

\* The loop of parse_tokens is about to take a header-total command.
TotalPulled ==
    /\ Running
    /\ commands # <<>>
    /\ Head(commands).tag \in DOMAIN MatchingField

\* C23: parse_tokens stores each standalone header-total command in its own
\* matching field and in no other (T_TOTAL in totals.notes, T_TAP in
\* totals.tap, T_HOLD in totals.hold, T_SIDE in totals.side, T_SHOLD in
\* totals.side_hold, T_FLICK in totals.flick, T_BELL in totals.bell), and
\* leaves every other accumulator field unchanged.
C23_TotalStoredInMatchingField ==
    [][TotalPulled =>
          ogkr' = [ogkr EXCEPT !.header.totals[MatchingField[Head(commands).tag]] =
                      Head(commands).value]]_vars

----------------------------------------------------------------------------
(* parse_tokens as one function of the stream, to compare two calls. *)

\* The loop of parse_tokens from the commands left and the aggregate built
\* so far to the value returned; Continued is the loop after the arm of a
\* Start token.
RECURSIVE parse_loop(_, _)
RECURSIVE Continued(_, _, _)
parse_loop(rest, aggregate) ==
    IF rest = <<>> THEN Ok(aggregate)
    ELSE IF Head(rest).tag = "SectionName" THEN parse_loop(Tail(rest), aggregate)
    ELSE IF Head(rest).tag \in StartTags
    THEN Continued(KindOfStart(Head(rest).tag),
                   section_from_commands(
                       KindOfStart(Head(rest).tag), Head(rest).id, Tail(rest),
                       push(<<>>, PointOf(KindOfStart(Head(rest).tag), Head(rest)))),
                   aggregate)
    ELSE IF Head(rest).tag \in DOMAIN NoteList
    THEN parse_loop(Tail(rest),
                    [aggregate EXCEPT !.notes[NoteList[Head(rest).tag]] =
                        push(@, RawValueOf([kind |-> NoteList[Head(rest).tag],
                                            id |-> Head(rest).id,
                                            ms |-> Head(rest).ms]))])
    ELSE IF Head(rest).tag \in DOMAIN TotalField
    THEN parse_loop(Tail(rest),
                    [aggregate EXCEPT !.header.totals[TotalField[Head(rest).tag]] =
                        Head(rest).value])
    ELSE IF Head(rest).tag \in DOMAIN HeaderField
    THEN parse_loop(Tail(rest),
                    [aggregate EXCEPT !.header[HeaderField[Head(rest).tag]] =
                        Some(Head(rest).value)])
    ELSE IF Head(rest).tag = "BulletPalette"
    THEN parse_loop(Tail(rest),
                    [aggregate EXCEPT !.bullet_pallete_list = push(@, Head(rest).value)])
    ELSE unexpected_token(Head(rest))

Continued(kind, built, aggregate) ==
    IF IsOk(built.result)
    THEN parse_loop(built.commands,
                    [aggregate EXCEPT !.track[kind] = push(@, built.result.val)])
    ELSE built.result

\* parse_tokens
parse_tokens(token_stream) == parse_loop(token_stream, RawOgkr_default)

----------------------------------------------------------------------------
(* Properties of section header lines in a stream (SpecParse). *)

\* The stream with a SectionName token put after its first i tokens.
WithSectionNameAt(token_stream, i) ==
    SubSeq(token_stream, 1, i)
    \o <<[tag |-> "SectionName", id |-> 0, ms |-> <<0>>]>>
    \o SubSeq(token_stream, i + 1, Len(token_stream))

\* C24: SectionName tokens are no-ops for raw parsing: for every token
\* stream, inserting a SectionName token at any position, between the Start
\* and the End of a section included, leaves the result of parse_tokens
\* unchanged.  Checked on the streams parse_tokens accepts.
C24_SectionNameIsNoOp ==
    IsOk(presult) =>
        \A i \in 0..Len(stream) :
            parse_tokens(WithSectionNameAt(stream, i)) = presult

----------------------------------------------------------------------------
(* Properties of the time order of a hold's path (SpecInterval). *)

\* C25: for a lane whose points have strictly increasing times and a hold
\* whose start time is strictly before its end time, the path returned by
\* create_points_within_time_interval is non-decreasing in time, also when
\* the whole hold lies before the first point of the lane or after its last.
C25_PathIsNonDecreasingInTime ==
    ( /\ HoldCalled
      /\ StrictlyIncreasing(hlane.val.points)
      /\ TimingPoint_cmp(HoldStart.time, HoldEnd.time) = "Less"
      /\ IsOk(hnote) )
    => SortedByTime(hnote.val.points)

----------------------------------------------------------------------------
(* Properties of the lane indexes of Track::from_raw (SpecMeasures). *)

\* The pairs <<time, id>> an index of the track lists: a lane index holds a
\* list of ids under each time, a wall index one id.
ListedIn(track, kind) ==
    IF kind \in {"walls_left", "walls_right"}
    THEN {<<t, track[kind][t]>> : t \in DOMAIN track[kind]}
    ELSE UNION {{<<t, track[kind][t][i]>> : i \in 1..Len(track[kind][t])} :
                t \in DOMAIN track[kind]}

\* The indexes that list the id.
IndexesOf(track, id) ==
    {k \in 1..Len(LaneLists) : \E entry \in ListedIn(track, LaneLists[k]) : entry[2] = id}

\* C26: after a successful Track::from_raw every LaneId listed in the
\* lanes_left, lanes_center, lanes_right, enemy_lanes, walls_left and
\* walls_right indexes is a key of lanes_data whose Lane has the lane_type
\* of that index and whose first point is at the time of the index key, and
\* every Lane of lanes_data is listed in exactly one of these indexes, also
\* when ids collide across categories or two walls start at the same time.
C26_IndexesAgreeWithLanesData ==
    IsOk(rtrack) =>
        /\ \A k \in 1..Len(LaneLists) :
               \A entry \in ListedIn(rtrack.val, LaneLists[k]) :
                   /\ entry[2] \in DOMAIN rtrack.val.lanes_data
                   /\ rtrack.val.lanes_data[entry[2]].lane_type = LaneTypeOf[LaneLists[k]]
                   /\ rtrack.val.lanes_data[entry[2]].points[1].time = entry[1]
        /\ \A id \in DOMAIN rtrack.val.lanes_data :
               Cardinality(IndexesOf(rtrack.val, id)) = 1

----------------------------------------------------------------------------
(* Properties of the outcomes of Track::from_raw on one chart              *)
(* (SpecMeasures).                                                         *)

\* C27: parse_raw_ogkr is deterministic: two runs on equal RawOgkr inputs
\* produce equal resolved models, including which id a wall index keeps
\* when two entities share the same first timing key and the order of the
\* ids inside each lane index list, whatever the iteration order of the
\* intermediate id map: every outcome Track::from_raw can produce on the
\* chart of the state is the outcome of this run.
C27_ResolutionIsDeterministic ==
    IsOk(rtrack) =>
        \A other \in Track_from_raw(raw.track) : other = rtrack

----------------------------------------------------------------------------
(* SpecBells: parse_raw_ogkr on charts of a left lane, a left wall and a   *)
(* right wall with bells, with or without a palette id, and with any       *)
(* declared palettes and bullets.                                          *)

MaxBellNotes == 2

BellItems == {item \in NoteItems : item.kind = "bells"}

BellCharts(max_notes) ==
    {RawOgkrOf(SkeletonSections, notes, palettes, bullets) :
        notes \in SeqsUpTo(BellItems, max_notes),
        palettes \in SeqsUpTo(PaletteCommands, 1),
        bullets \in SeqsUpTo({BulletCommand(id, 0) : id \in PaletteIds}, 1)}

InitBells ==
    /\ IdleOrder
    /\ IdleHold
    /\ IdleBullets
    /\ IdleParse
    /\ IdleLex
    /\ raw \in BellCharts(MaxBellNotes)
    /\ rtrack = NotRun
    /\ rnotes = NotRun
    /\ rbullets = NotRun
    /\ rogkr = NotRun
    /\ rpc = "track"

SpecBells == InitBells /\ [][NextResolve]_vars

\* C28: after a successful resolution every palette id referenced in the
\* resolved model exists in bullets.bullet_palette_list; in particular
\* every BellNote whose bullet_palette is present names a declared palette.
C28_ReferencedPalettesAreDeclared ==
    (rpc = "done" /\ IsOk(rogkr)) =>
        /\ \A t \in DOMAIN rogkr.val.bullets.bullets :
               \A k \in 1..Len(rogkr.val.bullets.bullets[t]) :
                   rogkr.val.bullets.bullets[t][k].palette_id
                       \in DOMAIN rogkr.val.bullets.bullet_palette_list
        /\ \A t \in DOMAIN rogkr.val.notes.bells :
               \A k \in 1..Len(rogkr.val.notes.bells[t]) :
                   rogkr.val.notes.bells[t][k].bullet_palette.some =>
                       rogkr.val.notes.bells[t][k].bullet_palette.v
                           \in DOMAIN rogkr.val.bullets.bullet_palette_list

----------------------------------------------------------------------------
(* SpecFile: a chart text through tokenize and then parse_tokens, as        *)
(* test_file of tests/files.rs chains them.                                 *)

MaxFileLines == 3

\* Command lines of a chart: a section header, a version, a bullet palette,
\* a bullet type line, a tap, the start, a middle point and the end of a
\* left wall, and a word that is no command.
FileLines ==
    { <<"[", "H", "]">>,
      <<"V", "E", "R", "S", "I", "O", "N", " ", "1", " ", "0", " ", "0">>,
      <<"B", "P", "L", " ", "p", " ", "U", "P", "S", " ", "0", " ",
        "P", "L", "R", " ", "1", " ", "N", "M", "L">>,
      <<"B", "T", "P">>,
      <<"T", "A", "P", " ", "1", " ", "0", " ", "0", " ", "0", " ", "0">>,
      <<"W", "L", "S", " ", "1", " ", "0", " ", "0", " ", "0">>,
      <<"W", "L", "N", " ", "1", " ", "1", " ", "0", " ", "0">>,
      <<"W", "L", "E", " ", "1", " ", "1", " ", "0", " ", "0">>,
      <<"F", "O", "O">> }

FileSources(max_lines) ==
    {Join(lines, <<"\n">>) : lines \in SeqsUpTo(FileLines, max_lines)}

InitFile ==
    /\ IdleOrder
    /\ IdleHold
    /\ IdleBullets
    /\ IdleResolve
    /\ IdleParse
    /\ source \in FileSources(MaxFileLines)
    /\ cursor = Cursor_new
    /\ tokens = <<>>
    /\ lresult = NotRun

\* A token as parse_tokens matches on it: its variant, the id and the
\* measure of the point or note it carries, and its payload.  (The lines of
\* FileLines have offset 0 and x position 0.)
CommandOf(token) ==
    CASE token.kind \in {"WallLeftStart", "WallLeftNext", "WallLeftEnd"} ->
             [tag |-> token.kind, id |-> token.value.group_id,
              ms |-> <<token.value.time.measure>>, value |-> token.value]
      [] token.kind = "Tap" ->
             [tag |-> token.kind, id |-> token.value.lane_group_id,
              ms |-> <<token.value.time.measure>>, value |-> token.value]
      [] OTHER ->
             [tag |-> token.kind, id |-> 0, ms |-> <<0>>, value |-> token.value]

\* Commands::new_from_token_stream: reversed, then popped from the end, the
\* tokens come out in source order.
Commands_new_from_token_stream(token_stream) ==
    [i \in 1..Len(token_stream) |-> CommandOf(token_stream[i])]

\* let tokens = tokenize(source).expect("must be tokenized");
\* let raw_ogkr = parse_tokens(tokens) ..: the call of parse_tokens up to
\* its loop, or the abort of expect.
CallParseTokens ==
    /\ lresult.kind # "NotRun"
    /\ presult.kind = "Idle"
    /\ IF IsOk(lresult)
       THEN /\ stream' = Commands_new_from_token_stream(lresult.val)
            /\ commands' = stream'
            /\ ogkr' = RawOgkr_default
            /\ presult' = NotRun
       ELSE /\ presult' = Panic("must be tokenized")
            /\ UNCHANGED <<stream, commands, ogkr>>
    /\ UNCHANGED <<holdVars, bulletVars, resolveVars, lexVars, orderVars>>

NextFile ==
    \/ LexToken
    \/ LexFinish
    \/ CallParseTokens
    \/ ParseSectionName
    \/ ParseHeader
    \/ ParsePalette
    \/ ParseSection
    \/ ParseNote
    \/ ParseUnexpected
    \/ ParseFinish

SpecFile == InitFile /\ [][NextFile]_vars

NextTags == {NextTag[kind] : kind \in SectionKinds}

EndTags == {EndTag[kind] : kind \in SectionKinds}

\* Every section of the tokens is a contiguous run: a Start, then only the
\* Next tokens of its list, then its End, all with the id of the Start, and
\* no Next or End stands outside a run.  `open` is the Start of the run the
\* first token is in, if any.
RECURSIVE SectionsAreRuns(_, _)
SectionsAreRuns(rest, open) ==
    IF rest = <<>> THEN ~open.some
    ELSE IF ~open.some
    THEN IF Head(rest).kind \in StartTags
         THEN SectionsAreRuns(Tail(rest), Some(Head(rest)))
         ELSE /\ Head(rest).kind \notin NextTags \cup EndTags
              /\ SectionsAreRuns(Tail(rest), None)
    ELSE /\ Head(rest).kind \in {NextTag[KindOfStart(open.v.kind)],
                                EndTag[KindOfStart(open.v.kind)]}
         /\ Head(rest).value.group_id = open.v.value.group_id
         /\ SectionsAreRuns(Tail(rest),
                            IF Head(rest).kind \in EndTags THEN None ELSE open)

ParseTokensReturned == presult.kind \notin {"Idle", "NotRun"}

\* C29: every token kind tokenize can emit for a keyword other than a Next
\* or End keyword is accepted by the top-level dispatch of parse_tokens: a
\* source in which every section is a well-formed contiguous Start, Next..,
\* End run and which tokenizes successfully, also one with a BTP line, is
\* parsed to Ok.
C29_TokenizedSourceParsesToOk ==
    (IsOk(lresult) /\ SectionsAreRuns(lresult.val, None) /\ ParseTokensReturned)
        => IsOk(presult)

----------------------------------------------------------------------------
(* SpecOrder: XPosition::cmp on any two x positions, called both ways.     *)

XPositions ==
    {XPosition_new(position, offset) :
        position \in (0 - MaxX)..MaxX, offset \in (0 - MaxOffset)..MaxOffset}

InitOrder ==
    /\ IdleHold
    /\ IdleBullets
    /\ IdleResolve
    /\ IdleParse
    /\ IdleLex
    /\ xself \in XPositions
    /\ xother \in XPositions
    /\ xordering = <<>>

\* self.cmp(&other)
CmpSelf ==
    /\ xordering = <<>>
    /\ xordering' = <<XPosition_cmp(xself, xother)>>
    /\ UNCHANGED <<xself, xother, holdVars, bulletVars, resolveVars, parseVars, lexVars>>

\* other.cmp(&self)
CmpOther ==
    /\ Len(xordering) = 1
    /\ xordering' = Append(xordering, XPosition_cmp(xother, xself))
    /\ UNCHANGED <<xself, xother, holdVars, bulletVars, resolveVars, parseVars, lexVars>>

NextOrder == CmpSelf \/ CmpOther

SpecOrder == InitOrder /\ [][NextOrder]_vars

\* Ordering::reverse
Ordering_reverse(ordering) ==
    CASE ordering = "Less" -> "Greater"
      [] ordering = "Greater" -> "Less"
      [] OTHER -> "Equal"

\* The lexicographic order on (position, offset).
Lexicographic(a, b) ==
    IF a.position < b.position THEN "Less"
    ELSE IF a.position > b.position THEN "Greater"
    ELSE IF a.offset < b.offset THEN "Less"
    ELSE IF a.offset > b.offset THEN "Greater"
    ELSE "Equal"

\* C30: the ordering of XPosition is a total order consistent with
\* equality: it is the lexicographic order on (position, offset), cmp(a, a)
\* is Equal for every a, cmp(a, b) is Equal exactly when a == b, and
\* cmp(a, b) is the reverse of cmp(b, a).
C30_XPositionOrderIsLexicographic ==
    Len(xordering) = 2 =>
        /\ xordering[1] = Lexicographic(xself, xother)
        /\ XPosition_eq(xself, xother) => xordering[1] = "Equal"
        /\ (xordering[1] = "Equal") <=> XPosition_eq(xself, xother)
        /\ xordering[1] = Ordering_reverse(xordering[2])

============================================================================
